---------------------------- MODULE Spec2Model ----------------------------
(***************************************************************************)
(* Option-Combo-Simulation: the pricing engine of bsm.js, its three        *)
(* consumers (holdings table in app.js, P&L curve in chart.js, probability *)
(* analysis in prob_charts.js) and the Monte Carlo worker life cycle.      *)
(*                                                                         *)
(* Numbers.  JavaScript doubles are modelled as fixed-point integers with  *)
(* four decimals: the integer n stands for n / 10^4.  Dollar amounts,      *)
(* volatilities, rates and years are all in these units; positions, day    *)
(* counts, bin indexes and path counts are plain integers.  Dates are day  *)
(* numbers (days since 1970-01-01, UTC), which is what                     *)
(* new Date(str + 'T00:00:00Z') / 86400000 yields for a YYYY-MM-DD string. *)
(* An absent value (null / undefined) is the empty tuple, a present value  *)
(* x is the one-element tuple <<x>>.                                       *)
(*                                                                         *)
(* Layout.  A value a function computes once and uses several times (a     *)
(* const in the source) is handed on as an operator argument: f(a) ==      *)
(* fOf(a, g(a)), with fOf holding the rest of the body.                    *)
(***************************************************************************)
EXTENDS Integers, Sequences, FiniteSets, TLC

\* ------------------------------------------------------------------------
\* Fixed-point arithmetic standing in for IEEE doubles
\* ------------------------------------------------------------------------

\* One unit in fixed point (four decimals).
SCALE == 10 ^ 4

Null == << >>
Some(x) == << x >>
Val(o) == o[1]

Abs(x) == IF x < 0 THEN -x ELSE x
Max(a, b) == IF a >= b THEN a ELSE b
Min(a, b) == IF a <= b THEN a ELSE b

\* Integer division rounding to nearest (ties up); d > 0.
RoundDiv(n, d) == (n + d \div 2) \div d

\* a * b and a / b of two fixed-point numbers.
FMul(a, b) == RoundDiv(a * b, SCALE)
FDiv(a, b) == IF b > 0 THEN RoundDiv(a * SCALE, b) ELSE -RoundDiv(a * SCALE, -b)

\* Math.round of the quotient n / d of two integers, d > 0.
MathRound(n, d) == RoundDiv(n, d)

\* Math.floor of the quotient n / d, d > 0.
MathFloor(n, d) == n \div d

RECURSIVE NewtonSqrt(_, _)
NewtonSqrt(n, x) ==
    LET y == (x + n \div x) \div 2
    IN IF y >= x THEN x ELSE NewtonSqrt(n, y)

\* Integer square root: the largest s with s * s <= n.
ISqrt(n) == IF n <= 0 THEN 0 ELSE NewtonSqrt(n, n)

\* Math.sqrt on fixed point; arguments from 20 up lose two decimals so that
\* the integers stay in range.
MathSqrt(x) == IF x < 20 * SCALE THEN ISqrt(x * SCALE) ELSE 100 * ISqrt(x)

\* ln 2 = 0.693147... and Math.sqrt(2.0) in fixed point.
LN2 == RoundDiv(693147, 100)
SQRT2 == ISqrt(2 * SCALE * SCALE)

\* exp(x) for 0 <= x <= ln 2: Taylor polynomial of degree 6.
ExpSmall(x) ==
    LET x2 == FMul(x, x)
        x3 == FMul(x2, x)
        x4 == FMul(x3, x)
        x5 == FMul(x4, x)
        x6 == FMul(x5, x)
    IN SCALE + x + x2 \div 2 + x3 \div 6 + x4 \div 24 + x5 \div 120 + x6 \div 720

RECURSIVE ExpPos(_)
ExpPos(x) == IF x > LN2 THEN 2 * ExpPos(x - LN2) ELSE ExpSmall(x)

\* Math.exp on fixed point.  Below -10 the result is under half a unit and
\* rounds to 0; arguments above 10 do not occur in the model.
MathExp(x) ==
    IF x >= 0 THEN ExpPos(x)
    ELSE IF x < -10 * SCALE THEN 0
    ELSE FDiv(SCALE, ExpPos(-x))

\* ln(a / b) for b <= a < 2b: 2 atanh((a-b)/(a+b)), four terms.
LogSmall(a, b) ==
    LET z == RoundDiv((a - b) * SCALE, a + b)
        z2 == FMul(z, z)
        z3 == FMul(z2, z)
        z5 == FMul(z3, z2)
        z7 == FMul(z5, z2)
    IN 2 * (z + z3 \div 3 + z5 \div 5 + z7 \div 7)

RECURSIVE LogRatio(_, _)
\* Math.log(a / b) for fixed-point a, b > 0, by halving/doubling into [1, 2).
LogRatio(a, b) ==
    IF a >= 2 * b THEN LN2 + LogRatio(a, 2 * b)
    ELSE IF a < b THEN LogRatio(2 * a, b) - LN2
    ELSE LogSmall(a, b)

\* ------------------------------------------------------------------------
\* bsm.js: Black-Scholes-Merton kernel
\* ------------------------------------------------------------------------

\* normalCDF(x), Abramowitz & Stegun 7.1.26: the polynomial in t times
\* exp(-x*x), for x already divided by sqrt(2).
NormalCDFY(t, e) ==
    SCALE - FMul(FMul(FMul(FMul(FMul(FMul(10614, t) - 14532, t) + 14214, t)
                           - 2845, t) + 2548, t), e)

\* For |x|/sqrt(2) >= 3.2 the term exp(-x*x) is below half a fixed-point
\* unit, so y = 1.
NormalCDFAbs(ax) ==
    NormalCDFY(FDiv(SCALE, SCALE + FMul(3276, ax)),
               IF 10 * ax >= 32 * SCALE THEN 0 ELSE MathExp(-FMul(ax, ax)))

normalCDF(x) ==
    (SCALE + (IF x < 0 THEN -1 ELSE 1) * NormalCDFAbs(FDiv(Abs(x), SQRT2)))
    \div 2

\* Bound on |d1|: beyond +-10 both CDFs are saturated (0 or 1) and d1 is
\* used for nothing else; the bound keeps the integers in range.
DSat == 10 * SCALE

\* num / den, saturated.
D1Quotient(num, den) ==
    IF Abs(num) >= 10 * den
    THEN (IF num >= 0 THEN DSat ELSE -DSat)
    ELSE (num * SCALE) \div den

calculateD1(S, K, T, r, v) ==
    D1Quotient(LogRatio(S, K) + FMul(r + FMul(v, v) \div 2, T),
               FMul(v, MathSqrt(T)))

calculateD2(d1, v, T) == d1 - FMul(v, MathSqrt(T))

\* Mutation of the expiry edge case: the floor at zero is dropped.
Intrinsic_noFloor(type, S, K) ==
    IF type = "call" THEN S - K ELSE K - S

\* Lines 43-44: Math.max(0, S - K) for a call, Math.max(0, K - S) for a put.
Intrinsic(type, S, K) ==
    IF type = "call" THEN Max(0, S - K) ELSE Max(0, K - S)

\* The two return statements of the closed form; disc is K * exp(-r * T).
BsmValue(type, S, disc, d1, d2) ==
    IF type = "call"
    THEN FMul(S, normalCDF(d1)) - FMul(disc, normalCDF(d2))
    ELSE FMul(disc, normalCDF(-d2)) - FMul(S, normalCDF(-d1))

BsmWithD1(type, S, K, T, r, v, d1) ==
    BsmValue(type, S, FMul(K, MathExp(-FMul(r, T))), d1, calculateD2(d1, v, T))

\* The closed-form branch of calculateOptionPrice (T > 0) after the two
\* clamps "if (v <= 0) v = 0.0001" and "if (S <= 0) S = 0.0001".
BsmClamped(type, S, K, T, r, v) ==
    BsmWithD1(type, S, K, T, r, v, calculateD1(S, K, T, r, v))

BsmFormula(type, S, K, T, r, v) ==
    BsmClamped(type, IF S <= 0 THEN 1 ELSE S, K, T, r, IF v <= 0 THEN 1 ELSE v)

calculateOptionPrice(type, S, K, T, r, v) ==
    IF T <= 0
    THEN (IF type \in {"call", "put"} THEN Intrinsic(type, S, K) ELSE 0)
    ELSE IF type \in {"call", "put"} THEN BsmFormula(type, S, K, T, r, v) ELSE 0

\* ------------------------------------------------------------------------
\* bsm.js: date utilities
\* ------------------------------------------------------------------------

getMultiplier == 100

\* Date.prototype.getUTCDay of a day number: 0 = Sunday .. 6 = Saturday
\* (1970-01-01 was a Thursday).
getUTCDay(d) == (d + 4) % 7

diffDays(d1, d2) == Max(0, d2 - d1)

addDays(d, days) == d + days

RECURSIVE CountWeekdays(_, _)
\* The while loop of calendarToTradingDays: weekdays in [current, end).
CountWeekdays(current, end) ==
    IF current < end
    THEN (IF getUTCDay(current) # 0 /\ getUTCDay(current) # 6 THEN 1 ELSE 0)
         + CountWeekdays(current + 1, end)
    ELSE 0

calendarToTradingDays(start, end) ==
    IF start > end THEN 0 ELSE CountWeekdays(start, end)

\* ------------------------------------------------------------------------
\* market_holidays.js: the rule-based NYSE calendar, on day numbers
\* ------------------------------------------------------------------------

\* Days before the first of each month (0-indexed month + 1) in a common
\* year.
MonthStart == <<0, 31, 59, 90, 120, 151, 181, 212, 243, 273, 304, 334, 365>>

\* Date.UTC(year, month, day) as a day number, for the common years 2026 and
\* 2027 (2026-01-01 is day 20454); day 0 is the last day of the month
\* before.
DateUTC(year, month, day) ==
    20454 + 365 * (year - 2026) + MonthStart[month + 1] + day - 1

\* parseInt(dateStr.slice(0, 4), 10)
YearOf(d) == 2026 + (d - 20454) \div 365

\* The last steps of the Anonymous Gregorian algorithm.
EasterFrom(year, h, l, m) ==
    DateUTC(year, (h + l - 7 * m + 114) \div 31 - 1,
            ((h + l - 7 * m + 114) % 31) + 1)

EasterHL(year, a, h, l) ==
    EasterFrom(year, h, l, (a + 11 * h + 22 * l) \div 451)

EasterH(year, a, b, c, h) ==
    EasterHL(year, a, h,
             (32 + 2 * (b % 4) + 2 * (c \div 4) - h - (c % 4)) % 7)

EasterABC(year, a, b, c, f) ==
    EasterH(year, a, b, c,
            (19 * a + b - b \div 4 - (b - f + 1) \div 3 + 15) % 30)

easterSunday(year) ==
    EasterABC(year, year % 19, year \div 100, year % 100,
              (year \div 100 + 8) \div 25)

nthWeekday(year, month, dayOfWeek, n) ==
    DateUTC(year, month,
            1 + ((dayOfWeek - getUTCDay(DateUTC(year, month, 1)) + 7) % 7)
              + (n - 1) * 7)

lastWeekday(year, month, dayOfWeek) ==
    DateUTC(year, month + 1, 0)
    - ((getUTCDay(DateUTC(year, month + 1, 0)) - dayOfWeek + 7) % 7)

\* Saturday is observed on Friday, Sunday on Monday.
observe(date) ==
    IF getUTCDay(date) = 6 THEN date - 1
    ELSE IF getUTCDay(date) = 0 THEN date + 1
    ELSE date

computeHolidaysForYear(year) ==
    {observe(DateUTC(year, 0, 1)),
     nthWeekday(year, 0, 1, 3),
     nthWeekday(year, 1, 1, 3),
     easterSunday(year) - 2,
     lastWeekday(year, 4, 1),
     observe(DateUTC(year, 5, 19)),
     observe(DateUTC(year, 6, 4)),
     nthWeekday(year, 8, 1, 1),
     nthWeekday(year, 10, 4, 4),
     observe(DateUTC(year, 11, 25))}

isMarketHoliday(d) == d \in computeHolidaysForYear(YearOf(d))

\* Mutation of the year fraction: integer division, whole years only.
YearFraction_whole(tradDTE) == (tradDTE \div 252) * SCALE

\* tradDTE / 252.0 in fixed point.
YearFraction(tradDTE) == RoundDiv(tradDTE * SCALE, 252)

\* ------------------------------------------------------------------------
\* bsm.js: processLegData, computeLegPrice, computeSimulatedPrice
\* ------------------------------------------------------------------------

\* leg.currentPrice && leg.currentPrice > 0
HasLiveQuote(leg) == leg.currentPrice # Null /\ Val(leg.currentPrice) > 0

\* Mutation of the expiry test of processLegData: strict comparison.
IsExpired_strict(expDate, simDate) == expDate < simDate

\* const isExpired = expDateObj <= simDateObj
IsExpired(expDate, simDate) == expDate <= simDate

\* The offline branch of the cost rule for a given baseT: BSM value at the
\* base date with the leg's own IV.
BaseDateCostAt(leg, baseT, uPrice, iRate) ==
    IF baseT <= 0
    THEN (IF leg.type = "call"
          THEN Max(0, uPrice - leg.strike)
          ELSE Max(0, leg.strike - uPrice))
    ELSE calculateOptionPrice(leg.type, uPrice, leg.strike, baseT, iRate, leg.iv)

BaseDateCost(leg, bDate, uPrice, iRate) ==
    BaseDateCostAt(leg, YearFraction(calendarToTradingDays(bDate, leg.expDate)),
                   uPrice, iRate)

\* Lines 134-160 of processLegData.  gBase, gUnder, gRate are the optional
\* parameters globalBaseDateStr, globalUnderlyingPrice, globalInterestRate.
EffectiveCostPerShare(leg, gBase, gUnder, gRate, viewMode) ==
    IF viewMode = "trial" \/ leg.cost = 0
    THEN IF HasLiveQuote(leg) THEN Val(leg.currentPrice)
         ELSE IF gBase # Null /\ gUnder # Null /\ gRate # Null
         THEN BaseDateCost(leg, Val(gBase), Val(gUnder), Val(gRate))
         ELSE leg.cost
    ELSE leg.cost

\* Mutation of the normalizer: simIV without its floor.
ProcessedLeg_noFloor(leg, isExpired, calDTE, tradDTE, gIvOffset, eff) ==
    [type |-> leg.type, strike |-> leg.strike, pos |-> leg.pos,
     isExpired |-> isExpired, calDTE |-> calDTE, tradDTE |-> tradDTE,
     T |-> YearFraction(tradDTE),
     simIV |-> leg.iv + gIvOffset,
     posMultiplier |-> leg.pos * getMultiplier,
     costBasis |-> leg.pos * getMultiplier * eff,
     effectiveCostPerShare |-> eff]

\* The object processLegData returns, from the values it computed.
ProcessedLeg(leg, isExpired, calDTE, tradDTE, gIvOffset, eff) ==
    [type |-> leg.type, strike |-> leg.strike, pos |-> leg.pos,
     isExpired |-> isExpired, calDTE |-> calDTE, tradDTE |-> tradDTE,
     T |-> YearFraction(tradDTE),
     simIV |-> Max(10, leg.iv + gIvOffset),
     posMultiplier |-> leg.pos * getMultiplier,
     costBasis |-> leg.pos * getMultiplier * eff,
     effectiveCostPerShare |-> eff]

processLegDataAt(leg, isExpired, simDate, gIvOffset, eff) ==
    ProcessedLeg(leg, isExpired,
                 IF isExpired THEN 0 ELSE diffDays(simDate, leg.expDate),
                 IF isExpired THEN 0
                 ELSE calendarToTradingDays(simDate, leg.expDate),
                 gIvOffset, eff)

\* Mutation of the cost rule: the theoretical cost is priced at the
\* simulated date instead of the base date.
processLegData_costAtSimDate(leg, simDate, gIvOffset, gBase, gUnder, gRate, viewMode) ==
    processLegDataAt(leg, IsExpired(leg.expDate, simDate), simDate, gIvOffset,
                     EffectiveCostPerShare(leg,
                         IF gBase = Null THEN Null ELSE Some(simDate),
                         gUnder, gRate, viewMode))

processLegData(leg, simDate, gIvOffset, gBase, gUnder, gRate, viewMode) ==
    processLegDataAt(leg, IsExpired(leg.expDate, simDate), simDate, gIvOffset,
                     EffectiveCostPerShare(leg, gBase, gUnder, gRate, viewMode))

computeLegPrice(processedLeg, uPrice, iRate) ==
    IF processedLeg.isExpired
    THEN (IF processedLeg.type = "call"
          THEN Max(0, uPrice - processedLeg.strike)
          ELSE Max(0, processedLeg.strike - uPrice))
    ELSE calculateOptionPrice(processedLeg.type, uPrice,
                              processedLeg.strike, processedLeg.T,
                              iRate, processedLeg.simIV)

\* Mutation of computeSimulatedPrice: the bypass ignores the IV offset.
computeSimulatedPrice_anyOffset(processedLeg, rawLeg, uPrice, iRate, viewMode, simDate, bDate, ivOff) ==
    IF viewMode = "trial" /\ simDate = bDate
       /\ rawLeg.currentPrice # Null /\ Val(rawLeg.currentPrice) > 0
    THEN Val(rawLeg.currentPrice)
    ELSE computeLegPrice(processedLeg, uPrice, iRate)

\* Mutation of computeSimulatedPrice: no bypass at all.
computeSimulatedPrice_noBypass(processedLeg, rawLeg, uPrice, iRate, viewMode, simDate, bDate, ivOff) ==
    computeLegPrice(processedLeg, uPrice, iRate)

computeSimulatedPrice(processedLeg, rawLeg, uPrice, iRate, viewMode, simDate, bDate, ivOff) ==
    LET isEvaluatingRightNow == (simDate = bDate) /\ (ivOff = 0)
    IN IF viewMode = "trial" /\ isEvaluatingRightNow
          /\ rawLeg.currentPrice # Null /\ Val(rawLeg.currentPrice) > 0
       THEN Val(rawLeg.currentPrice)
       ELSE computeLegPrice(processedLeg, uPrice, iRate)

\* ------------------------------------------------------------------------
\* Sequences of legs and groups
\* ------------------------------------------------------------------------

RECURSIVE SumSeq(_)
SumSeq(q) == IF q = << >> THEN 0 ELSE Head(q) + SumSeq(Tail(q))

RECURSIVE FlatLegs(_)
\* state.groups.flatMap(g => g.legs), each leg paired with its group's
\* view mode (group.viewMode || 'active').
FlatLegs(gs) ==
    IF gs = << >> THEN << >>
    ELSE [i \in 1..Len(Head(gs).legs) |->
             [leg |-> Head(gs).legs[i], viewMode |-> Head(gs).viewMode]]
         \o FlatLegs(Tail(gs))

\* ------------------------------------------------------------------------
\* app.js: updateDerivedValues (holdings table and summary cards)
\* ------------------------------------------------------------------------

\* One .leg-row: what rows.forEach computes from pLeg and simPricePerShare.
TableRowOf(pLeg, simPricePerShare) ==
    [tradDTE |-> pLeg.tradDTE, calDTE |-> pLeg.calDTE, simIV |-> pLeg.simIV,
     simPricePerShare |-> simPricePerShare, costBasis |-> pLeg.costBasis,
     simValue |-> pLeg.posMultiplier * simPricePerShare,
     pnl |-> pLeg.posMultiplier * simPricePerShare - pLeg.costBasis]

TableRowPriced(pLeg, st) ==
    TableRowOf(pLeg, computeLegPrice(pLeg, st.underlyingPrice, st.interestRate))

\* const pLeg = processLegData(leg, state.simulatedDate, state.ivOffset)
TableRow(leg, st) ==
    TableRowPriced(processLegData(leg, st.simulatedDate, st.ivOffset,
                                  Null, Null, Null, "active"), st)

\* One .group-card: the cells of its rows and the group summary.
TableCardOf(rows, groupCost, groupSimValue) ==
    [rows |-> [i \in 1..Len(rows) |->
                  [tradDTE |-> rows[i].tradDTE, calDTE |-> rows[i].calDTE,
                   simIV |-> rows[i].simIV,
                   simPricePerShare |-> rows[i].simPricePerShare,
                   pnl |-> rows[i].pnl]],
     groupCost |-> groupCost, groupSimValue |-> groupSimValue,
     groupPnl |-> groupSimValue - groupCost]

TableCardRows(rows) ==
    TableCardOf(rows, SumSeq([i \in 1..Len(rows) |-> rows[i].costBasis]),
                SumSeq([i \in 1..Len(rows) |-> rows[i].simValue]))

TableCard(group, st) ==
    TableCardRows([i \in 1..Len(group.legs) |-> TableRow(group.legs[i], st)])

\* The global summary card.
DerivedTotals(cards, globalTotalCost, globalSimulatedValue) ==
    [cards |-> cards, totalCost |-> globalTotalCost,
     simulatedValue |-> globalSimulatedValue,
     unrealizedPnL |-> globalSimulatedValue - globalTotalCost]

DerivedOf(cards) ==
    DerivedTotals(cards, SumSeq([g \in 1..Len(cards) |-> cards[g].groupCost]),
                  SumSeq([g \in 1..Len(cards) |-> cards[g].groupSimValue]))

\* The numbers updateDerivedValues hands to the DOM.
updateDerivedValues(st) ==
    DerivedOf([g \in 1..Len(st.groups) |-> TableCard(st.groups[g], st)])

\* ------------------------------------------------------------------------
\* chart.js: PnLChart.draw
\* ------------------------------------------------------------------------

\* Number of sample points of a P&L curve (this.pointsCount = 100).
PointsCount == 3

\* One entry of processedLegs, from the leg's simCalDTE.
ChartLegOf(leg, st, simCalDTE) ==
    [type |-> leg.type, pos |-> leg.pos, strike |-> leg.strike,
     simTradDTE |-> Max(0, MathRound(simCalDTE * 252, 365)),
     simCalDTE |-> simCalDTE,
     simIV |-> Max(10, leg.iv + st.ivOffset),
     timeToMaturityYears |-> YearFraction(Max(0, MathRound(simCalDTE * 252, 365))),
     costBasis |-> leg.pos * 100 * leg.cost]

\* processedLegs: the chart's own pre-processing of one leg.
ChartLeg(leg, st) ==
    ChartLegOf(leg, st, IF leg.expDate <= st.simulatedDate THEN 0
                        ELSE Max(0, leg.expDate - st.simulatedDate))

\* pricePerShare of one processed leg at one sample price.
ChartPricePerShare(l, currentS, iRate) ==
    IF l.simCalDTE > 0
    THEN calculateOptionPrice(l.type, currentS, l.strike,
                              l.timeToMaturityYears, iRate, l.simIV)
    ELSE IF l.type = "call" THEN Max(0, currentS - l.strike)
    ELSE IF l.type = "put" THEN Max(0, l.strike - currentS)
    ELSE 0

\* The y value of one data point: simValue - totalCostBasis.
ChartPnL(pls, currentS, iRate) ==
    SumSeq([j \in 1..Len(pls) |->
               pls[j].pos * 100 * ChartPricePerShare(pls[j], currentS, iRate)])
    - SumSeq([j \in 1..Len(pls) |-> pls[j].costBasis])

\* The data points for the processed legs pls.
ChartData(pls, iRate, minS, maxS, step) ==
    Some([data |-> [i \in 1..PointsCount |->
                       [x |-> minS + (i - 1) * step,
                        y |-> ChartPnL(pls, minS + (i - 1) * step, iRate)]],
          minS |-> minS, maxS |-> maxS])

\* lastRenderData after draw(group, globalState, minS, maxS): absent for an
\* empty chart, else the data points and the range.
PnLChartDraw(legs, st, minS, maxS) ==
    IF Len(legs) = 0 \/ minS >= maxS THEN Null
    ELSE ChartData([j \in 1..Len(legs) |-> ChartLeg(legs[j], st)],
                   st.interestRate, minS, maxS,
                   (maxS - minS) \div (PointsCount - 1))

\* app.js getGlobalChartRange / drawGlobalChart with the default range mode
\* '10' (plus or minus 10 % of the underlying price).
getGlobalChartRange(st) ==
    [minS |-> FMul(st.underlyingPrice, SCALE - SCALE \div 10),
     maxS |-> FMul(st.underlyingPrice, SCALE + SCALE \div 10)]

\* virtualGroup.legs = state.groups.flatMap(g => g.legs)
VirtualLegs(fl) == [i \in 1..Len(fl) |-> fl[i].leg]

drawGlobalChart(st) ==
    PnLChartDraw(VirtualLegs(FlatLegs(st.groups)), st,
                 getGlobalChartRange(st).minS, getGlobalChartRange(st).maxS)

\* ------------------------------------------------------------------------
\* prob_charts.js: main-thread helpers
\* ------------------------------------------------------------------------

MeanSimIV(fl, off) ==
    IF Len(fl) = 0 THEN 0
    ELSE RoundDiv(SumSeq([i \in 1..Len(fl) |-> Max(10, fl[i].leg.iv + off)]),
                  Len(fl))

\* app.js computePortfolioMeanSimIV.
computePortfolioMeanSimIV(st) == MeanSimIV(FlatLegs(st.groups), st.ivOffset)

\* The body of group.legs.forEach in _computePortfolioPnLAtPrice: value and
\* cost of one leg at the given price.
PortfolioLegOf(pLeg, leg, viewMode, st, price) ==
    [value |-> pLeg.posMultiplier
               * computeSimulatedPrice(pLeg, leg, price, st.interestRate,
                                       viewMode, st.simulatedDate, st.baseDate,
                                       st.ivOffset),
     cost |-> pLeg.costBasis]

PortfolioLeg(leg, viewMode, st, price) ==
    PortfolioLegOf(processLegData(leg, st.simulatedDate, st.ivOffset,
                                  Some(st.baseDate), Some(st.underlyingPrice),
                                  Some(st.interestRate), viewMode),
                   leg, viewMode, st, price)

\* totalValue - totalCost
PortfolioTotal(pl) ==
    SumSeq([i \in 1..Len(pl) |-> pl[i].value])
    - SumSeq([i \in 1..Len(pl) |-> pl[i].cost])

PortfolioLegs(fl, st, price) ==
    [i \in 1..Len(fl) |-> PortfolioLeg(fl[i].leg, fl[i].viewMode, st, price)]

computePortfolioPnLAtPrice(st, price) ==
    PortfolioTotal(PortfolioLegs(FlatLegs(st.groups), st, price))

\* Mutation of the fallback threshold: 2 instead of 2.001.
CalibrateFrom_atTwo(df, targetDailyVol) ==
    IF df <= 2 * SCALE THEN targetDailyVol
    ELSE FDiv(targetDailyVol, MathSqrt(FDiv(df, df - 2 * SCALE)))

\* _calibrateScale(df, portfolioIV); Math.sqrt(365) is taken to three
\* decimals.
CalibrateFrom(df, targetDailyVol) ==
    IF df <= 2 * SCALE + 10 THEN targetDailyVol
    ELSE FDiv(targetDailyVol, MathSqrt(FDiv(df, df - 2 * SCALE)))

calibrateScale(df, portfolioIV) ==
    CalibrateFrom(df, FDiv(portfolioIV, 10 * ISqrt(365 * SCALE * 100)))

\* The per-underlying parameter table T_DIST_PARAMS_DB (t_params_db.js):
\* a lookup by ticker that is absent for tickers never fitted.
T_DIST_PARAMS_DB(symbol) ==
    IF symbol = "SPY" THEN Some([df |-> 24948, loc |-> 9])
    ELSE IF symbol = "QQQ" THEN Some([df |-> 30000, loc |-> 5])
    ELSE Null

\* Mutation of drawEmpty: the placeholder is painted but the cache stays.
drawEmpty_keepCache(chart, msg) ==
    [shown |-> "empty", msg |-> msg, cache |-> chart.cache]

\* ProbabilityChart / ExpectedPnLDensityChart: what the canvas shows, the
\* placeholder message and the _cache used by redraw().
drawEmpty(chart, msg) == [shown |-> "empty", msg |-> msg, cache |-> Null]

drawLoading(chart) == [shown |-> "loading", msg |-> "", cache |-> chart.cache]

draw(chart, args) == [shown |-> "data", msg |-> "", cache |-> Some(args)]

\* ------------------------------------------------------------------------
\* prob_charts.js: the Monte Carlo worker (self.onmessage)
\* ------------------------------------------------------------------------

\* Paths per simulation (nPaths = 1_000_000) and histogram bins (bins = 500).
NPaths == 2
Bins == 2

\* Values of Math.exp(logRet), the factor between the current price and a
\* path's final price: inside the default price range and exactly on its
\* upper edge, which is outside the histogram.
Multipliers == {SCALE, SCALE + SCALE \div 10}

\* v_opt of a leg that has not expired, from v_sqrt_T and d1.
WorkerBsmValue(leg, finalPrice, v_sqrt_T, d1) ==
    IF leg.type = "call"
    THEN FMul(finalPrice, normalCDF(d1))
         - FMul(FMul(leg.K, MathExp(-FMul(leg.r, leg.T))), normalCDF(d1 - v_sqrt_T))
    ELSE FMul(FMul(leg.K, MathExp(-FMul(leg.r, leg.T))), normalCDF(-(d1 - v_sqrt_T)))
         - FMul(finalPrice, normalCDF(-d1))

\* d1 = log_S * inv_v_sqrt_T + d1_const with the precomputed constants
\* written out; v is the clamped leg.v.
WorkerBsm(leg, finalPrice, v, v_sqrt_T, log_S) ==
    WorkerBsmValue(leg, finalPrice, v_sqrt_T,
        D1Quotient(log_S - LogRatio(leg.K, SCALE)
                   + FMul(leg.r + FMul(v, v) \div 2, leg.T), v_sqrt_T))

WorkerBsmClamped(leg, finalPrice, v, s_safe) ==
    WorkerBsm(leg, finalPrice, v, FMul(v, MathSqrt(leg.T)),
              LogRatio(s_safe, SCALE))

\* Value of one leg at a path's final price.
WorkerLegValue(leg, finalPrice) ==
    IF leg.T <= 0
    THEN (IF leg.type = "call" THEN Max(0, finalPrice - leg.K)
          ELSE Max(0, leg.K - finalPrice))
    ELSE WorkerBsmClamped(leg, finalPrice, IF leg.v <= 0 THEN 1 ELSE leg.v,
                          IF finalPrice > 0 THEN finalPrice ELSE 1)

WorkerBinWidth(data) == RoundDiv(data.maxS - data.minS, data.bins)

\* Mutation of the bin index: a price on or above the upper edge falls
\* into the last bin.
WorkerBinIdx_clampTop(data, finalPrice) ==
    Min(MathFloor(finalPrice - data.minS, WorkerBinWidth(data)),
        data.bins - 1)

\* binIdx of a final price (0-based) and the inRange test.
WorkerBinIdx(data, finalPrice) ==
    MathFloor(finalPrice - data.minS, WorkerBinWidth(data))

WorkerInRange(data, finalPrice) ==
    WorkerBinIdx(data, finalPrice) >= 0
    /\ WorkerBinIdx(data, finalPrice) < data.bins

\* Mutation of the path loop: only paths inside the histogram range
\* contribute to the sum.
WorkerPathPnL_inRangeOnly(data, finalPrice) ==
    IF WorkerInRange(data, finalPrice)
    THEN SumSeq([l \in 1..Len(data.legs) |->
             data.legs[l].posMultiplier * WorkerLegValue(data.legs[l], finalPrice)
             - data.legs[l].costBasis])
    ELSE 0

\* pathPnL of one path: what the path adds to exactPnLSum.
WorkerPathPnL(data, finalPrice) ==
    SumSeq([l \in 1..Len(data.legs) |->
        data.legs[l].posMultiplier * WorkerLegValue(data.legs[l], finalPrice)
        - data.legs[l].costBasis])

\* Mutation of the normalisation: the counts are divided by the number of
\* paths that fell inside the range instead of nPaths.
WorkerResult_normInRange(data, final, binWidth, exactPnLSum) ==
    [tDensity |-> [b \in 1..data.bins |->
         RoundDiv(Cardinality({i \in 1..data.nPaths :
                      WorkerInRange(data, final[i])
                      /\ WorkerBinIdx(data, final[i]) = b - 1}) * SCALE * SCALE,
                  Max(1, Cardinality({i \in 1..data.nPaths :
                                        WorkerInRange(data, final[i])}))
                  * binWidth)],
     binCenters |-> [b \in 1..data.bins |->
                        data.minS + ((2 * b - 1) * binWidth) \div 2],
     binWidth |-> binWidth,
     exactExpectedPnL |-> IF data.nPaths > 0
                          THEN RoundDiv(exactPnLSum, data.nPaths) ELSE 0]

\* The message posted, from the final prices, the bin width and the sum.
WorkerResult(data, final, binWidth, exactPnLSum) ==
    [tDensity |-> [b \in 1..data.bins |->
         RoundDiv(Cardinality({i \in 1..data.nPaths :
                      WorkerInRange(data, final[i])
                      /\ WorkerBinIdx(data, final[i]) = b - 1}) * SCALE * SCALE,
                  data.nPaths * binWidth)],
     binCenters |-> [b \in 1..data.bins |->
                        data.minS + ((2 * b - 1) * binWidth) \div 2],
     binWidth |-> binWidth,
     exactExpectedPnL |-> IF data.nPaths > 0
                          THEN RoundDiv(exactPnLSum, data.nPaths) ELSE 0]

WorkerLoop(data, final) ==
    WorkerResult(data, final, WorkerBinWidth(data),
        SumSeq([i \in 1..data.nPaths |-> WorkerPathPnL(data, final[i])]))

\* The whole of self.onmessage for the final-price factors drawn by the
\* sampler: the message posted back to the main thread.
WorkerOnMessage(data, paths) ==
    WorkerLoop(data, [i \in 1..data.nPaths |-> FMul(data.currentPrice, paths[i])])

\* ------------------------------------------------------------------------
\* Program state
\* ------------------------------------------------------------------------

VARIABLES
    underlyingSymbol,   \* state.underlyingSymbol
    underlyingPrice,    \* state.underlyingPrice
    baseDate,           \* state.baseDate
    simulatedDate,      \* state.simulatedDate
    interestRate,       \* state.interestRate
    ivOffset,           \* state.ivOffset
    groups,             \* state.groups: <<[viewMode, legs]>>
    table,              \* numbers last written to the DOM by updateDerivedValues
    globalChartVisible, \* globalChartContainer.style.display # 'none'
    globalCurve,        \* lastRenderData of the global PnLChart
    panelVisible,       \* probAnalysisContainer.style.display # 'none'
    probChart,          \* _probChart
    epnlChart,          \* _epnlChart
    badge,              \* value shown in expectedPnLBadge, absent when empty
    infoText,           \* which text _setInfoText last wrote
    activeWorker,       \* _activeWorker: 0 for null, else the worker's number
    workers,            \* every Worker created so far, by number
    callSeq,            \* history: number of updateProbCharts calls so far
    lastEvent,          \* history: the last event handled
    lastValid,          \* history: the last result drawn and still current
    call,               \* last application of a pure function and its result
    ws,                 \* the WebSocket in ws: its readyState and what was sent
    isWsConnected,      \* isWsConnected
    wsReconnectDelay,   \* _wsReconnectDelay, in ms
    wsReconnectTimer,   \* _wsReconnectTimer: the delay of the pending timeout
    wsStatus,           \* what updateWsStatusUI last showed
    renderScheduled,    \* renderScheduled
    rafPending,         \* animation-frame callbacks requested and not yet run
    liveGroups,         \* the groups (by position) whose liveData flag is on
    closesSinceOpen     \* history: close events since the last open event

appVars == <<underlyingSymbol, underlyingPrice, baseDate, simulatedDate,
             interestRate, ivOffset, groups>>
viewVars == <<table, globalChartVisible, globalCurve>>
probRest == <<panelVisible, probChart, epnlChart, badge, infoText,
              activeWorker, workers, callSeq, lastValid>>
liveRest == <<isWsConnected, wsReconnectDelay, wsReconnectTimer, wsStatus,
              renderScheduled, rafPending, liveGroups, closesSinceOpen>>
liveVars == <<ws, liveRest>>
vars == <<appVars, viewVars, probRest, lastEvent, call, liveVars>>

\* The global state object read by every consumer.
state ==
    [underlyingSymbol |-> underlyingSymbol, underlyingPrice |-> underlyingPrice,
     baseDate |-> baseDate, simulatedDate |-> simulatedDate,
     interestRate |-> interestRate, ivOffset |-> ivOffset, groups |-> groups]

\* ------------------------------------------------------------------------
\* Bounds and input sets
\* ------------------------------------------------------------------------

\* A Monday (2026-03-02) as a day number: getUTCDay(Day0) = 1.
Day0 == 7 * 2930 + 4

\* updateProbCharts is called at most this many times in a run.
MaxCalls == 3

\* Groups a portfolio holds at most.
MaxGroups == 2

Prices == {10 * SCALE, 12 * SCALE}
SimDates == {Day0 - 1, Day0 + 5}
SliderDays == {0, 5}
Rates == {0, 300}
Offsets == {-3000, 0}
\* Texts typed into the symbol field: a fitted ticker in lower case, another
\* fitted ticker, a ticker never fitted, and the field cleared.
Symbols == {"spy", "QQQ", "IWM", ""}
ViewModes == {"active", "trial"}

\* A call carrying a live quote and a put that was never filled or quoted.
QuotedCall ==
    [type |-> "call", pos |-> 1, strike |-> 10 * SCALE, expDate |-> Day0 + 7,
     iv |-> 2000, cost |-> 15000, currentPrice |-> Some(12000)]
UnfilledPut ==
    [type |-> "put", pos |-> -1, strike |-> 10 * SCALE, expDate |-> Day0 + 7,
     iv |-> 2000, cost |-> 0, currentPrice |-> Null]

\* A trial combo as imported from a saved portfolio.
TrialGroup == [viewMode |-> "trial", legs |-> << QuotedCall, UnfilledPut >>]

NoWorker ==
    [status |-> "none", req |-> Null, closure |-> Null, drawn |-> << >>,
     msg |-> Null]
BlankChart == [shown |-> "blank", msg |-> "", cache |-> Null]
NoEvent == [kind |-> "none", worker |-> 0, calls |-> 0, badgeBefore |-> Null]

\* test_bsm.js 64-68: the backoff constants.
WS_BASE_DELAY == 5000
WS_MAX_DELAY == 60000

\* new WebSocket(url): the socket is connecting and nothing was sent on it.
NewSocket == [readyState |-> "connecting", sent |-> << >>]

\* updateWsStatusUI(status, nextRetrySec): the badge text it writes.
updateWsStatusUI(status, nextRetrySec) ==
    [status |-> status, retry |-> nextRetrySec]

\* The page after load with the server not yet reached: connectWebSocket()
\* has run once.
InitWs ==
    /\ ws = NewSocket
    /\ isWsConnected = FALSE
    /\ wsReconnectDelay = WS_BASE_DELAY
    /\ wsReconnectTimer = Null
    /\ wsStatus = updateWsStatusUI("disconnected", Null)
    /\ renderScheduled = FALSE
    /\ rafPending = 0
    /\ liveGroups = {}
    /\ closesSinceOpen = 0

\* ------------------------------------------------------------------------
\* Init: the page after a saved portfolio has been imported (importFromJSON
\* sets every field of state, appends the groups and renders them)
\* ------------------------------------------------------------------------

InitContext ==
    /\ underlyingSymbol = "SPY"
    /\ underlyingPrice = 10 * SCALE
    /\ baseDate = Day0
    /\ simulatedDate = Day0
    /\ interestRate = 300
    /\ ivOffset = 0

InitView ==
    /\ table = updateDerivedValues(state)
    /\ globalChartVisible = FALSE
    /\ globalCurve = Null

InitProb ==
    /\ panelVisible = FALSE
    /\ probChart = BlankChart
    /\ epnlChart = BlankChart
    /\ badge = Null
    /\ infoText = ""
    /\ activeWorker = 0
    /\ workers = [w \in 1..MaxCalls |-> NoWorker]
    /\ callSeq = 0
    /\ lastEvent = NoEvent
    /\ lastValid = Null

Init ==
    /\ InitContext
    /\ groups = << TrialGroup >>
    /\ InitView
    /\ InitProb
    /\ call = Null
    /\ InitWs

\* ------------------------------------------------------------------------
\* prob_charts.js: updateProbCharts and the worker life cycle
\* ------------------------------------------------------------------------

\* A worker that no longer holds anything the main thread can receive.
Ended(status) == [NoWorker EXCEPT !.status = status]

\* _activeWorker.terminate(): the worker stops, and a result it has posted
\* but the main thread has not yet received is dropped with its port.  An
\* error event already queued for the Worker object is a task of the main
\* thread's own event loop, which terminate() does not remove: it may still
\* be dispatched.
Terminate(wks, w) ==
    IF w = 0 THEN wks
    ELSE [wks EXCEPT ![w] = IF @.status \in {"running", "posted"}
                           THEN Ended("terminated") ELSE @]

\* One entry of workerLegs.
WorkerLegOf(pLeg, iRate) ==
    [type |-> pLeg.type, K |-> pLeg.strike, r |-> iRate, T |-> pLeg.T,
     v |-> pLeg.simIV, posMultiplier |-> pLeg.posMultiplier,
     costBasis |-> pLeg.costBasis]

WorkerLegsOf(fl, st) ==
    [i \in 1..Len(fl) |->
        WorkerLegOf(processLegData(fl[i].leg, st.simulatedDate, st.ivOffset,
                                   Some(st.baseDate), Some(st.underlyingPrice),
                                   Some(st.interestRate), fl[i].viewMode),
                    st.interestRate)]

\* workerLegs: one entry per leg, from processLegData with the full context.
WorkerLegs(st) == WorkerLegsOf(FlatLegs(st.groups), st)

\* The message posted to the new worker.
WorkerData(st, params, portfolioIV, nCalDays, rng) ==
    [df |-> params.df, loc |-> params.loc,
     newScale |-> calibrateScale(params.df, portfolioIV),
     nDays |-> nCalDays, nPaths |-> NPaths,
     currentPrice |-> st.underlyingPrice,
     minS |-> rng.minS, maxS |-> rng.maxS, bins |-> Bins,
     legs |-> WorkerLegs(st)]

\* The values the onmessage closure captures.
WorkerClosure(st, params, portfolioIV, nCalDays, rng) ==
    [nCalDays |-> nCalDays, portfolioIV |-> portfolioIV,
     currentPrice |-> st.underlyingPrice, loc |-> params.loc,
     minS |-> rng.minS, maxS |-> rng.maxS, bins |-> Bins]

\* What the probability panel holds when a call ends in a guard that paints
\* both charts empty; keep is the panel before the call.
GuardEmpty(keep, m1, m2, info, tag) ==
    [keep EXCEPT !.probChart = drawEmpty(keep.probChart, m1),
                 !.epnlChart = drawEmpty(keep.epnlChart, m2),
                 !.badge = Null, !.infoText = info,
                 !.lastValid = Null, !.outcome = tag]

\* Lines 760-805: loading state, terminate, assemble, launch worker n.
Launch(keep, st, params, portfolioIV, nCalDays, rng, n) ==
    [keep EXCEPT
        !.probChart = drawLoading(keep.probChart),
        !.epnlChart = drawLoading(keep.epnlChart),
        !.infoText = "simulating", !.badge = Null,
        !.workers = [Terminate(keep.workers, keep.activeWorker) EXCEPT
                        ![n] = [status |-> "running",
                                req |-> Some(WorkerData(st, params, portfolioIV,
                                                        nCalDays, rng)),
                                closure |-> Some(WorkerClosure(st, params,
                                                 portfolioIV, nCalDays, rng)),
                                drawn |-> << >>, msg |-> Null]],
        !.activeWorker = n, !.outcome = "launch"]

\* Mutation of updateProbCharts: the zero-horizon guard is missing.
UpdateProbChartsFrom_noZeroGuard(keep, st, visible, n, nCalDays, portfolioIV, rng, params) ==
    IF ~visible THEN keep
    ELSE IF Len(FlatLegs(st.groups)) = 0
    THEN GuardEmpty(keep, "noLegs", "noLegs", "noLegs", "noLegs")
    ELSE IF portfolioIV <= 0
    THEN GuardEmpty(keep, "noIV", "", keep.infoText, "noIV")
    ELSE IF rng.minS >= rng.maxS
    THEN [keep EXCEPT !.outcome = "badRange"]
    ELSE IF params = Null
    THEN GuardEmpty(keep, "missingParams", "missingParams", "missingParams",
                    "missingParams")
    ELSE Launch(keep, st, Val(params), portfolioIV, nCalDays, rng, n)

\* Mutation of updateProbCharts: a ticker without parameters is simulated
\* with those of SPY.
UpdateProbChartsFrom_fallbackSPY(keep, st, visible, n, nCalDays, portfolioIV, rng, params) ==
    IF ~visible THEN keep
    ELSE IF Len(FlatLegs(st.groups)) = 0
    THEN GuardEmpty(keep, "noLegs", "noLegs", "noLegs", "noLegs")
    ELSE IF nCalDays = 0
    THEN GuardEmpty(keep, "zeroDays", "zeroDays", "zeroDays", "zeroDays")
    ELSE IF portfolioIV <= 0
    THEN GuardEmpty(keep, "noIV", "", keep.infoText, "noIV")
    ELSE IF rng.minS >= rng.maxS
    THEN [keep EXCEPT !.outcome = "badRange"]
    ELSE Launch(keep, st,
                IF params = Null THEN Val(T_DIST_PARAMS_DB("SPY"))
                ELSE Val(params),
                portfolioIV, nCalDays, rng, n)

\* The guards of updateProbCharts in source order.  The 'Random Walk'
\* checkbox is taken unchecked (its default), so loc is the fitted drift.
UpdateProbChartsFrom(keep, st, visible, n, nCalDays, portfolioIV, rng, params) ==
    IF ~visible THEN keep
    ELSE IF Len(FlatLegs(st.groups)) = 0
    THEN GuardEmpty(keep, "noLegs", "noLegs", "noLegs", "noLegs")
    ELSE IF nCalDays = 0
    THEN GuardEmpty(keep, "zeroDays", "zeroDays", "zeroDays", "zeroDays")
    ELSE IF portfolioIV <= 0
    THEN GuardEmpty(keep, "noIV", "", keep.infoText, "noIV")
    ELSE IF rng.minS >= rng.maxS
    THEN [keep EXCEPT !.outcome = "badRange"]
    ELSE IF params = Null
    THEN GuardEmpty(keep, "missingParams", "missingParams", "missingParams",
                    "missingParams")
    ELSE Launch(keep, st, Val(params), portfolioIV, nCalDays, rng, n)

\* What one call of updateProbCharts() leaves behind, given the state it
\* reads.  outcome names the guard that ended the call, or "launch".
UpdateProbChartsResult(st, visible, n) ==
    UpdateProbChartsFrom(
        [probChart |-> probChart, epnlChart |-> epnlChart, badge |-> badge,
         infoText |-> infoText, activeWorker |-> activeWorker,
         workers |-> workers, lastValid |-> lastValid, outcome |-> "hidden"],
        st, visible, n, diffDays(st.baseDate, st.simulatedDate),
        computePortfolioMeanSimIV(st), getGlobalChartRange(st),
        T_DIST_PARAMS_DB(IF st.underlyingSymbol = "" THEN "SPY"
                         ELSE st.underlyingSymbol))

\* The panel after the call, written to the variables.
UpdateProbChartsApply(out, n) ==
    /\ probChart' = out.probChart
    /\ epnlChart' = out.epnlChart
    /\ badge' = out.badge
    /\ infoText' = out.infoText
    /\ activeWorker' = out.activeWorker
    /\ workers' = out.workers
    /\ lastValid' = out.lastValid
    /\ callSeq' = n
    /\ lastEvent' = [kind |-> out.outcome,
                     worker |-> IF out.outcome = "launch" THEN n ELSE 0,
                     calls |-> n, badgeBefore |-> badge]

\* One call of updateProbCharts(): call number callSeq + 1.
UpdateProbCharts(visible) ==
    UpdateProbChartsApply(UpdateProbChartsResult(state, visible, callSeq + 1),
                          callSeq + 1)

\* ------------------------------------------------------------------------
\* test_bsm.js, lines 57-241: the WebSocket client (connection with
\* exponential backoff, subscriptions, live market data)
\* ------------------------------------------------------------------------

\* Close events followed in one run of failures, and messages handed to one
\* socket.
MaxCloses == 6
MaxSent == 2

\* leg.type.charAt(0).toUpperCase()
RightOf(type) == IF type = "call" THEN "C" ELSE "P"

\* One entry of payload.options; a leg's id is its position <<group, leg>>.
OptionOf(id, leg) ==
    [id |-> id, right |-> RightOf(leg.type), strike |-> leg.strike,
     expDate |-> leg.expDate]

GroupOptions(g, legs) == [i \in 1..Len(legs) |-> OptionOf(<<g, i>>, legs[i])]

RECURSIVE OptionsFrom(_, _, _)
\* The forEach over state.groups: the legs of the groups with liveData on.
OptionsFrom(gs, g, live) ==
    IF g > Len(gs) THEN << >>
    ELSE (IF g \in live THEN GroupOptions(g, gs[g].legs) ELSE << >>)
         \o OptionsFrom(gs, g + 1, live)

\* Mutation of the subscription payload: the liveData flag is not read.
SubscribePayload_allGroups(st, live) ==
    [action |-> "subscribe", underlying |-> st.underlyingSymbol,
     options |-> Some(OptionsFrom(st.groups, 1, 1..Len(st.groups)))]

SubscribePayload(st, live) ==
    [action |-> "subscribe", underlying |-> st.underlyingSymbol,
     options |-> Some(OptionsFrom(st.groups, 1, live))]

\* The payload of requestUnderlyingPriceSync: it has no options field.
SyncPayload(st) ==
    [action |-> "sync_underlying", underlying |-> st.underlyingSymbol,
     options |-> Null]

\* ws.send(JSON.stringify(payload))
Send(sock, payload) == [sock EXCEPT !.sent = Append(@, payload)]

\* handleLiveSubscriptions(): nothing is sent unless isWsConnected.
handleLiveSubscriptions(sock, connected, st, live) ==
    IF ~connected THEN sock ELSE Send(sock, SubscribePayload(st, live))

\* The call handleLiveSubscriptions() at the end of a handler of app.js.
HandleLiveSubscriptions ==
    /\ ws' = handleLiveSubscriptions(ws, isWsConnected, state', liveGroups)
    /\ UNCHANGED liveRest

pageVars == <<viewVars, probRest, lastEvent, call>>

\* ws.onopen
WsOpen ==
    /\ ws.readyState = "connecting"
    /\ isWsConnected' = TRUE
    /\ wsReconnectDelay' = WS_BASE_DELAY
    /\ wsStatus' = updateWsStatusUI("connected", Null)
    /\ ws' = handleLiveSubscriptions([ws EXCEPT !.readyState = "open"], TRUE,
                                     state, liveGroups)
    /\ closesSinceOpen' = 0
    /\ UNCHANGED <<wsReconnectTimer, renderScheduled, rafPending, liveGroups,
                   appVars, pageVars>>

\* ws.onerror: the badge shows the error; the close event follows.
WsError ==
    /\ ws.readyState \in {"connecting", "open"}
    /\ ws' = [ws EXCEPT !.readyState = "failing"]
    /\ wsStatus' = updateWsStatusUI("error", Null)
    /\ UNCHANGED <<isWsConnected, wsReconnectDelay, wsReconnectTimer,
                   renderScheduled, rafPending, liveGroups, closesSinceOpen,
                   appVars, pageVars>>

\* Mutation of ws.onclose: the delay doubles without the cap.
WsCloseDelay_noCap(delay) == delay * 2

\* Math.min(_wsReconnectDelay * 2, WS_MAX_DELAY)
WsCloseDelay(delay) == Min(delay * 2, WS_MAX_DELAY)

\* ws.onclose: the reconnect is scheduled with the current delay, which is
\* then doubled up to the cap.
WsClose ==
    /\ ws.readyState \in {"connecting", "open", "failing"}
    /\ closesSinceOpen < MaxCloses
    /\ isWsConnected' = FALSE
    /\ wsStatus' = updateWsStatusUI("disconnected",
                                    Some(RoundDiv(wsReconnectDelay, 1000)))
    /\ wsReconnectTimer' = Some(wsReconnectDelay)
    /\ wsReconnectDelay' = WsCloseDelay(wsReconnectDelay)
    /\ ws' = [ws EXCEPT !.readyState = "closed"]
    /\ closesSinceOpen' = closesSinceOpen + 1
    /\ UNCHANGED <<renderScheduled, rafPending, liveGroups, appVars, pageVars>>

\* The timeout set by onclose fires: connectWebSocket() replaces the socket.
ConnectWebSocket ==
    /\ wsReconnectTimer # Null
    /\ wsReconnectTimer' = Null
    /\ ws' = NewSocket
    /\ UNCHANGED <<isWsConnected, wsReconnectDelay, wsStatus, renderScheduled,
                   rafPending, liveGroups, closesSinceOpen, appVars, pageVars>>

\* app.js 238-242: the Live Data checkbox of group g.
ToggleLiveData(g) ==
    /\ g \in 1..Len(groups)
    /\ Len(ws.sent) < MaxSent
    /\ liveGroups' = IF g \in liveGroups THEN liveGroups \ {g}
                     ELSE liveGroups \cup {g}
    /\ ws' = handleLiveSubscriptions(ws, isWsConnected, state, liveGroups')
    /\ UNCHANGED <<isWsConnected, wsReconnectDelay, wsReconnectTimer, wsStatus,
                   renderScheduled, rafPending, closesSinceOpen, appVars,
                   pageVars>>

\* requestUnderlyingPriceSync() on a connected client (otherwise it only
\* alerts).
RequestUnderlyingPriceSync ==
    /\ isWsConnected
    /\ Len(ws.sent) < MaxSent
    /\ ws' = Send(ws, SyncPayload(state))
    /\ UNCHANGED <<liveRest, appVars, pageVars>>

\* The price branch for one leg; q is data.options[leg.id].  A leg without a
\* currentPrice gives Math.abs(NaN) > 0.001, which is false.
LivePrice(leg, q) ==
    IF q.mark > 0 /\ leg.currentPrice # Null
       /\ Abs(q.mark - Val(leg.currentPrice)) > SCALE \div 1000
    THEN [leg EXCEPT !.currentPrice = Some(q.mark)]
    ELSE leg

\* The IV branch for one leg: any difference the fixed point can show is
\* above 0.000001.
LiveIv(leg, q) ==
    IF q.iv > 0 /\ q.iv # leg.iv THEN [leg EXCEPT !.iv = q.iv] ELSE leg

\* app.js 846-858: the older copy of the price branch writes the quote into
\* leg.cost.
AppLiveCost(leg, q) ==
    IF q.mark > 0 /\ Abs(q.mark - leg.cost) > SCALE \div 1000
    THEN [leg EXCEPT !.cost = q.mark]
    ELSE leg

LiveLegs(g, legs, options, version) ==
    [i \in 1..Len(legs) |->
        IF <<g, i>> \notin DOMAIN options THEN legs[i]
        ELSE IF version = "app.js" THEN AppLiveCost(legs[i], options[<<g, i>>])
        ELSE LiveIv(LivePrice(legs[i], options[<<g, i>>]), options[<<g, i>>])]

\* The forEach over state.groups of processLiveMarketData.
LiveGroups(gs, live, options, version) ==
    [g \in 1..Len(gs) |->
        IF g \in live
        THEN [gs[g] EXCEPT !.legs = LiveLegs(g, @, options, version)]
        ELSE gs[g]]

\* The state processLiveMarketData leaves and its stateChanged flag.
LiveResult(st, uPrice, gs) ==
    [underlyingPrice |-> IF uPrice # 0 THEN uPrice ELSE st.underlyingPrice,
     groups |-> gs,
     stateChanged |-> uPrice # 0 \/ gs # st.groups]

processLiveMarketData(st, live, data, version) ==
    LiveResult(st, data.underlyingPrice,
               LiveGroups(st.groups, live, data.options, version))

\* Mutation of the throttle: a frame is requested for every changing
\* message.
RequestFrame_unguarded(changed) ==
    IF changed
    THEN renderScheduled' = TRUE /\ rafPending' = rafPending + 1
    ELSE UNCHANGED <<renderScheduled, rafPending>>

\* if (stateChanged && !renderScheduled) { renderScheduled = true;
\* requestAnimationFrame(...) }
RequestFrame(changed) ==
    IF changed /\ ~renderScheduled
    THEN renderScheduled' = TRUE /\ rafPending' = rafPending + 1
    ELSE UNCHANGED <<renderScheduled, rafPending>>

LiveApply(r) ==
    /\ underlyingPrice' = r.underlyingPrice
    /\ groups' = r.groups
    /\ RequestFrame(r.stateChanged)

\* ws.onmessage with a message that parses: processLiveMarketData(data).
WsMessage(data) ==
    /\ ws.readyState = "open"
    /\ LiveApply(processLiveMarketData(state, liveGroups, data, "ws_client"))
    /\ UNCHANGED <<underlyingSymbol, baseDate, simulatedDate, interestRate,
                   ivOffset, ws, isWsConnected, wsReconnectDelay,
                   wsReconnectTimer, wsStatus, liveGroups, closesSinceOpen,
                   pageVars>>

\* The callback given to requestAnimationFrame: updateDerivedValues(), then
\* renderScheduled = false.
AnimationFrame ==
    /\ rafPending > 0
    /\ table' = updateDerivedValues(state)
    /\ globalCurve' = IF globalChartVisible THEN drawGlobalChart(state)
                      ELSE globalCurve
    /\ renderScheduled' = FALSE
    /\ rafPending' = rafPending - 1
    /\ UNCHANGED <<appVars, globalChartVisible, probRest, lastEvent, call, ws,
                   isWsConnected, wsReconnectDelay, wsReconnectTimer, wsStatus,
                   liveGroups, closesSinceOpen>>

\* ------------------------------------------------------------------------
\* app.js, lines 748-879: the older copy of the client kept in app.js
\* (reconnect after a fixed 5 s, live quotes written into leg.cost)
\* ------------------------------------------------------------------------

AppWsOpen ==
    /\ ws.readyState = "connecting"
    /\ isWsConnected' = TRUE
    /\ ws' = handleLiveSubscriptions([ws EXCEPT !.readyState = "open"], TRUE,
                                     state, liveGroups)
    /\ closesSinceOpen' = 0
    /\ UNCHANGED <<wsReconnectDelay, wsReconnectTimer, wsStatus,
                   renderScheduled, rafPending, liveGroups, appVars, pageVars>>

AppWsClose ==
    /\ ws.readyState \in {"connecting", "open"}
    /\ closesSinceOpen < MaxCloses
    /\ isWsConnected' = FALSE
    /\ wsReconnectTimer' = Some(5000)
    /\ ws' = [ws EXCEPT !.readyState = "closed"]
    /\ closesSinceOpen' = closesSinceOpen + 1
    /\ UNCHANGED <<wsReconnectDelay, wsStatus, renderScheduled, rafPending,
                   liveGroups, appVars, pageVars>>

AppWsMessage(data) ==
    /\ ws.readyState = "open"
    /\ LiveApply(processLiveMarketData(state, liveGroups, data, "app.js"))
    /\ UNCHANGED <<underlyingSymbol, baseDate, simulatedDate, interestRate,
                   ivOffset, ws, isWsConnected, wsReconnectDelay,
                   wsReconnectTimer, wsStatus, liveGroups, closesSinceOpen,
                   pageVars>>

\* ------------------------------------------------------------------------
\* app.js: control-panel and group handlers.  Each ends in
\* updateDerivedValues(), which rewrites the table and redraws the global
\* chart when its container is shown.
\* ------------------------------------------------------------------------

\* The tail call updateDerivedValues() on the state just written.
Refresh ==
    /\ table' = updateDerivedValues(state')
    /\ globalCurve' = IF globalChartVisible' THEN drawGlobalChart(state')
                      ELSE globalCurve

\* Mutation of the input path: every input event on a visible panel calls
\* updateProbCharts(), as the coupled scheduleProbChartUpdate() did.
InputEvent_recompute ==
    IF panelVisible /\ callSeq < MaxCalls
    THEN UpdateProbCharts(TRUE) /\ UNCHANGED <<panelVisible, call>>
    ELSE /\ lastEvent' = [kind |-> "input", worker |-> 0, calls |-> callSeq,
                          badgeBefore |-> badge]
         /\ UNCHANGED <<probRest, call>>

\* An input event: nothing of the probability panel is touched.
InputEvent ==
    /\ lastEvent' = [kind |-> "input", worker |-> 0, calls |-> callSeq,
                     badgeBefore |-> badge]
    /\ UNCHANGED <<probRest, call>>

UpdateUp(val) ==
    /\ underlyingPrice' = val
    /\ UNCHANGED <<underlyingSymbol, baseDate, simulatedDate, interestRate,
                   ivOffset, groups, globalChartVisible>>
    /\ UNCHANGED liveVars
    /\ InputEvent
    /\ Refresh

UpdateSimDate(newDate) ==
    /\ simulatedDate' = IF newDate < baseDate THEN baseDate ELSE newDate
    /\ UNCHANGED <<underlyingSymbol, underlyingPrice, baseDate, interestRate,
                   ivOffset, groups, globalChartVisible>>
    /\ UNCHANGED liveVars
    /\ InputEvent
    /\ Refresh

UpdateDaysSlider(days) ==
    /\ simulatedDate' = addDays(baseDate, days)
    /\ UNCHANGED <<underlyingSymbol, underlyingPrice, baseDate, interestRate,
                   ivOffset, groups, globalChartVisible>>
    /\ UNCHANGED liveVars
    /\ InputEvent
    /\ Refresh

UpdateIr(rate) ==
    /\ interestRate' = rate
    /\ UNCHANGED <<underlyingSymbol, underlyingPrice, baseDate, simulatedDate,
                   ivOffset, groups, globalChartVisible>>
    /\ UNCHANGED liveVars
    /\ InputEvent
    /\ Refresh

UpdateIv(offset) ==
    /\ ivOffset' = offset
    /\ UNCHANGED <<underlyingSymbol, underlyingPrice, baseDate, simulatedDate,
                   interestRate, groups, globalChartVisible>>
    /\ UNCHANGED liveVars
    /\ InputEvent
    /\ Refresh

\* String.prototype.toUpperCase on the texts of Symbols.
toUpperCase(text) ==
    CASE text = "spy" -> "SPY"
      [] text = "qqq" -> "QQQ"
      [] text = "iwm" -> "IWM"
      [] OTHER -> text

\* symInput 'change': no recomputation follows.
SymbolChange(sym) ==
    /\ underlyingSymbol' = toUpperCase(sym)
    /\ UNCHANGED <<underlyingPrice, baseDate, simulatedDate, interestRate,
                   ivOffset, groups, viewVars>>
    /\ HandleLiveSubscriptions
    /\ InputEvent

\* The leg addLegToGroupById creates.
NewLeg ==
    [type |-> "call", pos |-> 1, strike |-> underlyingPrice,
     expDate |-> addDays(baseDate, 30), iv |-> 2000, cost |-> 0,
     currentPrice |-> Null]

AddGroup ==
    /\ Len(groups) < MaxGroups
    /\ groups' = Append(groups, [viewMode |-> "active", legs |-> << NewLeg >>])
    /\ UNCHANGED <<underlyingSymbol, underlyingPrice, baseDate, simulatedDate,
                   interestRate, ivOffset, globalChartVisible>>
    /\ UNCHANGED liveVars
    /\ InputEvent
    /\ Refresh

RemoveGroup(g) ==
    /\ g \in 1..Len(groups)
    /\ groups' = SubSeq(groups, 1, g - 1) \o SubSeq(groups, g + 1, Len(groups))
    /\ UNCHANGED <<underlyingSymbol, underlyingPrice, baseDate, simulatedDate,
                   interestRate, ivOffset, globalChartVisible>>
    /\ HandleLiveSubscriptions
    /\ InputEvent
    /\ Refresh

ToggleGlobalChart ==
    /\ globalChartVisible' = ~globalChartVisible
    /\ globalCurve' = IF globalChartVisible' THEN drawGlobalChart(state)
                      ELSE globalCurve
    /\ UNCHANGED <<appVars, table>>
    /\ UNCHANGED liveVars
    /\ InputEvent

\* The date the page was loaded on (new Date().toISOString().slice(0, 10)).
initialDateStr == Day0

\* importFromJSON, reader.onload for a file that parses to an object with a
\* groups array: every control-panel field is taken from the file or
\* defaulted, the groups are appended, and renderGroups() ends in
\* updateDerivedValues().
ImportFromJSON(importedState) ==
    /\ Len(groups) + Len(importedState.groups) <= MaxGroups
    /\ underlyingSymbol' =
          IF importedState.underlyingSymbol = Null
             \/ Val(importedState.underlyingSymbol) = ""
          THEN "SPY" ELSE Val(importedState.underlyingSymbol)
    /\ underlyingPrice' =
          IF importedState.underlyingPrice = Null
             \/ Val(importedState.underlyingPrice) = 0
          THEN 100 * SCALE ELSE Val(importedState.underlyingPrice)
    /\ baseDate' = IF importedState.baseDate = Null THEN initialDateStr
                   ELSE Val(importedState.baseDate)
    /\ simulatedDate' =
          IF importedState.simulatedDate # Null
          THEN Val(importedState.simulatedDate)
          ELSE IF importedState.daysPassed # Null
          THEN addDays(baseDate', Val(importedState.daysPassed))
          ELSE baseDate'
    /\ interestRate' = IF importedState.interestRate # Null
                       THEN Val(importedState.interestRate) ELSE 300
    /\ ivOffset' = IF importedState.ivOffset = Null THEN 0
                   ELSE Val(importedState.ivOffset)
    /\ groups' = groups \o importedState.groups
    /\ UNCHANGED globalChartVisible
    /\ HandleLiveSubscriptions
    /\ InputEvent
    /\ Refresh

\* ------------------------------------------------------------------------
\* The probability panel's buttons and the worker's events
\* ------------------------------------------------------------------------

\* app.js toggleProbCharts: showing the panel calls updateProbCharts().
ToggleProbCharts ==
    /\ ~panelVisible => callSeq < MaxCalls
    /\ panelVisible' = ~panelVisible
    /\ IF panelVisible' THEN UpdateProbCharts(TRUE)
       ELSE /\ lastEvent' = [kind |-> "input", worker |-> 0, calls |-> callSeq,
                             badgeBefore |-> badge]
            /\ UNCHANGED <<probChart, epnlChart, badge, infoText, activeWorker,
                           workers, callSeq, lastValid>>
    /\ UNCHANGED <<appVars, viewVars, call, liveVars>>

\* The panel's Recalculate button: updateProbCharts().
Recalculate ==
    /\ panelVisible
    /\ callSeq < MaxCalls
    /\ UpdateProbCharts(panelVisible)
    /\ UNCHANGED <<panelVisible, appVars, viewVars, call, liveVars>>

\* The worker's self.onmessage runs to completion and posts its result.
\* The sampler's draws are the nondeterministic input.
WorkerRun(w) ==
    /\ workers[w].status = "running"
    /\ \E paths \in [1..NPaths -> Multipliers] :
          workers' = [workers EXCEPT
              ![w].status = "posted", ![w].drawn = paths,
              ![w].msg = Some(WorkerOnMessage(Val(workers[w].req), paths))]
    /\ UNCHANGED <<appVars, viewVars, call, liveVars, panelVisible, probChart,
                   epnlChart,
                   badge, infoText, activeWorker, callSeq, lastEvent, lastValid>>

\* The worker fails (its script cannot be loaded or throws): an error event
\* is queued for the Worker object.
WorkerFault(w) ==
    /\ workers[w].status = "running"
    /\ workers' = [workers EXCEPT ![w] = Ended("faulted")]
    /\ UNCHANGED <<appVars, viewVars, call, liveVars, panelVisible, probChart,
                   epnlChart,
                   badge, infoText, activeWorker, callSeq, lastEvent, lastValid>>

\* The P&L curve at each bin centre, on the state at delivery time.
PnlValues(st, binCenters) ==
    [i \in 1..Len(binCenters) |-> computePortfolioPnLAtPrice(st, binCenters[i])]

\* The two draw calls and the badge of onmessage; e is the message, c the
\* closure.  The lognormal comparison curve is kept as the arguments
\* _lognormalDensity is evaluated with at every bin centre.
OnMessageDraw(e, c, pnlValues) ==
    /\ probChart' = draw(probChart,
           [binCenters |-> e.binCenters, tDensity |-> e.tDensity,
            normalDensity |-> [S0 |-> c.currentPrice,
                               portfolioIV |-> c.portfolioIV,
                               loc |-> c.loc, nDays |-> c.nCalDays],
            minS |-> c.minS, maxS |-> c.maxS, currentPrice |-> c.currentPrice])
    /\ epnlChart' = draw(epnlChart,
           [binCenters |-> e.binCenters, pnlValues |-> pnlValues,
            tDensity |-> e.tDensity, minS |-> c.minS, maxS |-> c.maxS,
            currentPrice |-> c.currentPrice])
    /\ badge' = Some(e.exactExpectedPnL)

\* _activeWorker.onmessage of worker w.
OnMessage(w) ==
    /\ workers[w].status = "posted"
    /\ OnMessageDraw(Val(workers[w].msg), Val(workers[w].closure),
                     PnlValues(state, Val(workers[w].msg).binCenters))
    /\ infoText' = "done"
    /\ activeWorker' = 0
    /\ workers' = [workers EXCEPT ![w] = Ended("done")]
    /\ lastEvent' = [kind |-> "message", worker |-> w, calls |-> callSeq,
                     badgeBefore |-> badge]
    /\ lastValid' = Some([probCache |-> probChart'.cache,
                          epnlCache |-> epnlChart'.cache, badge |-> badge'])
    /\ UNCHANGED <<appVars, viewVars, call, liveVars, panelVisible, callSeq>>

\* _activeWorker.onerror of worker w.
OnError(w) ==
    /\ workers[w].status = "faulted"
    /\ probChart' = drawEmpty(probChart, "error")
    /\ epnlChart' = drawEmpty(epnlChart, "")
    /\ infoText' = "error"
    /\ activeWorker' = 0
    /\ workers' = [workers EXCEPT ![w] = Ended("failed")]
    /\ lastEvent' = [kind |-> "error", worker |-> w, calls |-> callSeq,
                     badgeBefore |-> badge]
    /\ UNCHANGED <<appVars, viewVars, call, liveVars, panelVisible, badge, callSeq,
                   lastValid>>

\* ------------------------------------------------------------------------
\* Spec: the probability panel and its worker, with the inputs its guards
\* read
\* ------------------------------------------------------------------------

Next ==
    \/ \E n \in SliderDays : UpdateDaysSlider(n)
    \/ \E sym \in Symbols : SymbolChange(sym)
    \/ ToggleProbCharts
    \/ Recalculate
    \/ \E w \in 1..MaxCalls : WorkerRun(w)
    \/ \E w \in 1..MaxCalls : WorkerFault(w)
    \/ \E w \in 1..MaxCalls : OnMessage(w)
    \/ \E w \in 1..MaxCalls : OnError(w)

Spec == Init /\ [][Next]_vars

\* ------------------------------------------------------------------------
\* SpecApp: the control panel, the groups, the holdings table and the
\* global P&L chart
\* ------------------------------------------------------------------------

\* The imported portfolio holds one combo, saved in either view mode.
InitApp ==
    /\ InitContext
    /\ groups \in {<< [viewMode |-> m, legs |-> << QuotedCall, UnfilledPut >>] >> :
                      m \in ViewModes}
    /\ InitView
    /\ InitProb
    /\ call = Null
    /\ InitWs

NextApp ==
    \/ \E val \in Prices : UpdateUp(val)
    \/ \E d \in SimDates : UpdateSimDate(d)
    \/ \E n \in SliderDays : UpdateDaysSlider(n)
    \/ \E rate \in Rates : UpdateIr(rate)
    \/ \E offset \in Offsets : UpdateIv(offset)
    \/ AddGroup
    \/ \E g \in 1..MaxGroups : RemoveGroup(g)
    \/ ToggleGlobalChart

SpecApp == InitApp /\ [][NextApp]_vars

\* ------------------------------------------------------------------------
\* SpecKernel: the pure functions of bsm.js and the probability engine's
\* P&L function, each applied once to arguments drawn from bounded sets
\* ------------------------------------------------------------------------

KTypes == {"call", "put"}
KStrike == 10 * SCALE
KSpots == {0, 9 * SCALE, 10 * SCALE, 12 * SCALE}
\* Years to expiry: negative, zero, 5/252 and 21/252.
KTimes == {-40, 0, YearFraction(5), YearFraction(21)}
KVols == {0, 2000, 5000}
KDates == {Day0, Day0 + 5, Day0 + 7}
KOffsets == {-3000, 0, 1000}
KQuotes == {Null, Some(0), Some(12000)}
KLegs ==
    [type : KTypes, pos : {1, -2}, strike : {KStrike}, expDate : KDates,
     iv : {2000}, cost : {0, 15000}, currentPrice : KQuotes]
\* The optional context of processLegData: left out, or given in full.
KContexts ==
    {[gBase |-> Null, gUnder |-> Null, gRate |-> Null]}
    \cup [gBase : {Some(Day0)}, gUnder : {Some(p) : p \in Prices},
          gRate : {Some(300)}]

InitKernel ==
    /\ InitContext
    /\ groups = << >>
    /\ InitView
    /\ InitProb
    /\ call = Null
    /\ InitWs

\* The record of one application.
Applied(fn, args, ret) == Some([fn |-> fn, args |-> args, ret |-> ret])

ApplyCalculateOptionPrice ==
    /\ call = Null
    /\ \E type \in KTypes, S \in KSpots, T \in KTimes, r \in Rates, v \in KVols :
             call' = Applied("calculateOptionPrice",
                   [type |-> type, S |-> S, K |-> KStrike, T |-> T, r |-> r,
                    v |-> v],
                   calculateOptionPrice(type, S, KStrike, T, r, v))
    /\ UNCHANGED <<appVars, viewVars, probRest, lastEvent, liveVars>>

ApplyProcessLegData ==
    /\ call = Null
    /\ \E leg \in KLegs, simDate \in KDates, off \in KOffsets, c \in KContexts,
          viewMode \in ViewModes :
             call' = Applied("processLegData",
                   [leg |-> leg, simulatedDate |-> simDate, ivOffset |-> off,
                    context |-> c, viewMode |-> viewMode],
                   processLegData(leg, simDate, off, c.gBase, c.gUnder, c.gRate,
                                  viewMode))
    /\ UNCHANGED <<appVars, viewVars, probRest, lastEvent, liveVars>>

ApplyComputeSimulatedPrice ==
    /\ call = Null
    /\ \E leg \in KLegs, simDate \in KDates, off \in KOffsets,
          viewMode \in ViewModes, uPrice \in Prices :
             call' = Applied("computeSimulatedPrice",
                   [processedLeg |-> processLegData(leg, simDate, off, Some(Day0),
                                        Some(uPrice), Some(300), viewMode),
                    rawLeg |-> leg, underlyingPrice |-> uPrice,
                    interestRate |-> 300, viewMode |-> viewMode,
                    simulatedDate |-> simDate, baseDate |-> Day0,
                    ivOffset |-> off],
                   computeSimulatedPrice(
                       processLegData(leg, simDate, off, Some(Day0), Some(uPrice),
                                      Some(300), viewMode),
                       leg, uPrice, 300, viewMode, simDate, Day0, off))
    /\ UNCHANGED <<appVars, viewVars, probRest, lastEvent, liveVars>>

\* A state holding the single leg in one group.
OneLegState(leg, viewMode, simDate, off) ==
    [underlyingSymbol |-> "SPY", underlyingPrice |-> 10 * SCALE,
     baseDate |-> Day0, simulatedDate |-> simDate, interestRate |-> 300,
     ivOffset |-> off,
     groups |-> << [viewMode |-> viewMode, legs |-> << leg >>] >>]

ApplyComputePortfolioPnLAtPrice ==
    /\ call = Null
    /\ \E leg \in KLegs, simDate \in KDates, off \in KOffsets,
          viewMode \in ViewModes, price \in Prices \cup {9 * SCALE} :
             call' = Applied("computePortfolioPnLAtPrice",
                   [st |-> OneLegState(leg, viewMode, simDate, off),
                    price |-> price],
                   computePortfolioPnLAtPrice(
                       OneLegState(leg, viewMode, simDate, off), price))
    /\ UNCHANGED <<appVars, viewVars, probRest, lastEvent, liveVars>>

\* Histogram bounds handed to the worker, some nested in others, and the
\* factors of the paths' final prices: on a lower edge, inside and outside.
KRanges ==
    {[minS |-> 6 * SCALE, maxS |-> 14 * SCALE],
     [minS |-> 8 * SCALE, maxS |-> 12 * SCALE],
     [minS |-> 9 * SCALE, maxS |-> 13 * SCALE],
     [minS |-> 9 * SCALE, maxS |-> 11 * SCALE]}
KFactors == {7000, 9000, 10000, 11500, 12500, 13500}

\* The request updateProbCharts posts for one quoted call, with the given
\* histogram bounds.
KWorkerData(rng) ==
    WorkerData(OneLegState(QuotedCall, "active", Day0 + 5, 0),
               Val(T_DIST_PARAMS_DB("SPY")), 2000, 5, rng)

ApplyWorkerOnMessage ==
    /\ call = Null
    /\ \E rng \in KRanges, paths \in [1..NPaths -> KFactors] :
             call' = Applied("workerOnMessage",
                   [data |-> KWorkerData(rng), paths |-> paths],
                   WorkerOnMessage(KWorkerData(rng), paths))
    /\ UNCHANGED <<appVars, viewVars, probRest, lastEvent, liveVars>>

\* Degrees of freedom around the fallback threshold: 1.5, 2, 2.0005, 2.001,
\* 2.0011, and two fitted values.
KDfs == {15000, 20000, 20005, 20010, 20011, 24948, 30000}

ApplyCalibrateScale ==
    /\ call = Null
    /\ \E df \in KDfs, iv \in KVols \ {0} :
             call' = Applied("calibrateScale",
                   [df |-> df, portfolioIV |-> iv], calibrateScale(df, iv))
    /\ UNCHANGED <<appVars, viewVars, probRest, lastEvent, liveVars>>

\* Start and end dates: around Presidents' Day (2026-02-16), the first
\* week of March, and around Good Friday (2026-04-03).
KCalDates == {Day0 - 17, Day0 - 13, Day0, Day0 + 7, Day0 + 30, Day0 + 35}

ApplyCalendarToTradingDays ==
    /\ call = Null
    /\ \E start \in KCalDates, end \in KCalDates :
             call' = Applied("calendarToTradingDays",
                   [startDate |-> start, endDate |-> end],
                   calendarToTradingDays(start, end))
    /\ UNCHANGED <<appVars, viewVars, probRest, lastEvent, liveVars>>

\* Terminal prices handed to the worker's leg valuation: below zero, zero,
\* and around the strike.
KTerminal == {-SCALE, 0, 9 * SCALE, 10 * SCALE, 12 * SCALE}

\* The worker's value of one entry of workerLegs at one terminal price; the
\* entry is built as updateProbCharts builds it.
ApplyWorkerLegValue ==
    /\ call = Null
    /\ \E leg \in KLegs, simDate \in KDates, off \in KOffsets, r \in Rates,
          price \in KTerminal :
             call' = Applied("workerLegValue",
                   [processedLeg |-> processLegData(leg, simDate, off, Some(Day0),
                                        Some(10 * SCALE), Some(r), "active"),
                    interestRate |-> r, finalPrice |-> price],
                   WorkerLegValue(
                       WorkerLegOf(processLegData(leg, simDate, off, Some(Day0),
                                       Some(10 * SCALE), Some(r), "active"), r),
                       price))
    /\ UNCHANGED <<appVars, viewVars, probRest, lastEvent, liveVars>>

NextKernel ==
    \/ ApplyWorkerOnMessage
    \/ ApplyWorkerLegValue
    \/ ApplyCalendarToTradingDays
    \/ ApplyCalibrateScale
    \/ ApplyCalculateOptionPrice
    \/ ApplyProcessLegData
    \/ ApplyComputeSimulatedPrice
    \/ ApplyComputePortfolioPnLAtPrice

SpecKernel == InitKernel /\ [][NextKernel]_vars

\* ------------------------------------------------------------------------
\* SpecDates: the two date controls and the import of a saved portfolio
\* ------------------------------------------------------------------------

\* Files offered to the import: saved by the page or written by hand, with
\* or without the date fields (older versions saved daysPassed).
KFiles ==
    [underlyingSymbol : {Null, Some("QQQ")},
     underlyingPrice : {Some(12 * SCALE)},
     baseDate : {Null, Some(Day0 + 5)},
     simulatedDate : {Null, Some(Day0), Some(Day0 + 7)},
     daysPassed : {Null, Some(5)},
     interestRate : {Null, Some(0)},
     ivOffset : {Null, Some(1000)},
     groups : {<< >>, << TrialGroup >>}]

NextDates ==
    \/ \E d \in SimDates : UpdateSimDate(d)
    \/ \E n \in SliderDays : UpdateDaysSlider(n)
    \/ \E f \in KFiles : ImportFromJSON(f)

SpecDates == InitKernel /\ [][NextDates]_vars

\* ------------------------------------------------------------------------
\* SpecLive: the WebSocket client of test_bsm.js with two groups, the Live
\* Data checkboxes and the animation frames.  The browser runs a requested
\* animation-frame callback before its next repaint, hence the weak
\* fairness of the step that runs it.
\* ------------------------------------------------------------------------

\* Quotes the server streams for one leg: a mark of -1 stands for "no
\* quote", an iv of 0 for an absent or zero iv.
KLiveQuotes == [mark : {-SCALE, 13000}, iv : {0, 2500}]
KLiveIds == {{}, {<<1, 1>>}, {<<2, 1>>}}
KLiveOptions == UNION {[D -> KLiveQuotes] : D \in KLiveIds}

\* Messages of the server: an underlying price alone, or quotes alone.
KLiveData ==
    {[underlyingPrice |-> 11 * SCALE, options |-> << >>]}
    \cup [underlyingPrice : {0}, options : KLiveOptions]

ActiveGroup == [viewMode |-> "active", legs |-> << QuotedCall >>]

InitLive ==
    /\ InitContext
    /\ groups = << TrialGroup, ActiveGroup >>
    /\ InitView
    /\ InitProb
    /\ call = Null
    /\ InitWs

NextLive ==
    \/ WsOpen
    \/ WsError
    \/ WsClose
    \/ ConnectWebSocket
    \/ \E g \in 1..MaxGroups : ToggleLiveData(g)
    \/ RequestUnderlyingPriceSync
    \/ \E data \in KLiveData : WsMessage(data)
    \/ AnimationFrame

\* A step that runs the pending animation-frame callback.  Within NextLive
\* only AnimationFrame lowers rafPending, so this is that step, stated on the
\* counter alone.
FrameRuns == rafPending > 0 /\ rafPending' = rafPending - 1

SpecLive == InitLive /\ [][NextLive]_vars /\ WF_rafPending(FrameRuns)

\* ------------------------------------------------------------------------
\* SpecLiveApp: the same page driven by the copy of the client in app.js
\* ------------------------------------------------------------------------

NextLiveApp ==
    \/ AppWsOpen
    \/ AppWsClose
    \/ ConnectWebSocket
    \/ \E g \in 1..MaxGroups : ToggleLiveData(g)
    \/ \E data \in KLiveData : AppWsMessage(data)
    \/ AnimationFrame

SpecLiveApp == InitLive /\ [][NextLiveApp]_vars

\* ------------------------------------------------------------------------
\* Properties of the Monte Carlo worker and its life cycle (Spec)
\* ------------------------------------------------------------------------

\* The portfolio payoff at one terminal price, from the legs of a request.
C1_Payoff(legs, price) ==
    SumSeq([l \in 1..Len(legs) |->
               legs[l].posMultiplier * WorkerLegValue(legs[l], price)
               - legs[l].costBasis])

C1_PayoffSum(d, drawn) ==
    SumSeq([i \in 1..Len(drawn) |->
               C1_Payoff(d.legs, FMul(d.currentPrice, drawn[i]))])

C1_ResultOf(d, drawn, msg) ==
    (d.nPaths > 0 /\ Len(d.legs) > 0)
    => /\ Len(drawn) = d.nPaths
       /\ msg.exactExpectedPnL = RoundDiv(C1_PayoffSum(d, drawn), d.nPaths)

C1_MixedPaths(d, drawn) ==
    /\ \E i \in 1..Len(drawn) :
          /\ ~WorkerInRange(d, FMul(d.currentPrice, drawn[i]))
          /\ C1_Payoff(d.legs, FMul(d.currentPrice, drawn[i])) # 0
    /\ \E j \in 1..Len(drawn) : WorkerInRange(d, FMul(d.currentPrice, drawn[j]))

C4_NoStaleDelivery ==
    lastEvent.kind = "message" => lastEvent.worker = lastEvent.calls

\* C5: at most one worker is running a simulation.
C5_AtMostOneRunning ==
    Cardinality({w \in 1..MaxCalls : workers[w].status = "running"}) <= 1

\* C6 as stated: when onerror fires, the last valid result (both redraw
\* caches and the badge) is still in place.
C6_ResultRetained ==
    (lastEvent.kind = "error" /\ lastValid # Null)
    => /\ probChart.cache = Val(lastValid).probCache
       /\ epnlChart.cache = Val(lastValid).epnlCache
       /\ badge = Val(lastValid).badge

\* C6 amended: when onerror fires, both charts show the empty placeholder
\* and their redraw caches are cleared; the handler leaves the badge as it
\* found it.
C6_ErrorClearsCharts ==
    lastEvent.kind = "error"
    => /\ probChart.shown = "empty" /\ probChart.cache = Null
       /\ epnlChart.shown = "empty" /\ epnlChart.cache = Null
       /\ badge = lastEvent.badgeBefore

\* onerror has fired while a valid result was the last one drawn.
C6_Witness == lastEvent.kind = "error" /\ lastValid # Null

\* ------------------------------------------------------------------------
\* Properties of the pure functions (SpecKernel)
\* ------------------------------------------------------------------------

\* The arguments and the result of the application recorded in call.
Args == Val(call).args
Ret == Val(call).ret
Called(fn) == call # Null /\ Val(call).fn = fn

\* The four conditions of the bypass, on the arguments of
\* computeSimulatedPrice.
C2_BypassConditions(a) ==
    /\ a.viewMode = "trial"
    /\ a.simulatedDate = a.baseDate
    /\ a.ivOffset = 0
    /\ a.rawLeg.currentPrice # Null
    /\ Val(a.rawLeg.currentPrice) > 0

\* C2: computeSimulatedPrice returns rawLeg.currentPrice when viewMode is
\* 'trial', simulatedDate = baseDate, ivOffset = 0 and currentPrice > 0,
\* and computeLegPrice(processedLeg, underlyingPrice, interestRate) in every
\* other case.
C2_BypassIffAllFour ==
    Called("computeSimulatedPrice")
    => Ret = IF C2_BypassConditions(Args)
             THEN Val(Args.rawLeg.currentPrice)
             ELSE computeLegPrice(Args.processedLeg, Args.underlyingPrice,
                                  Args.interestRate)

\* An application in which the bypass is taken and the quote returned is
\* not what the pricing model gives.
C2_Witness ==
    /\ Called("computeSimulatedPrice")
    /\ C2_BypassConditions(Args)
    /\ ~Args.processedLeg.isExpired
    /\ Ret # computeLegPrice(Args.processedLeg, Args.underlyingPrice,
                             Args.interestRate)

\* C7: for T <= 0, calculateOptionPrice returns max(0, S - K) for a call
\* and max(0, K - S) for a put, whatever v and r are.
C7_IntrinsicAtExpiry ==
    (Called("calculateOptionPrice") /\ Args.T <= 0)
    => Ret = IF Args.type = "call"
             THEN (IF Args.S > Args.K THEN Args.S - Args.K ELSE 0)
             ELSE (IF Args.K > Args.S THEN Args.K - Args.S ELSE 0)

\* An out-of-the-money put priced at T < 0 with a high volatility and a
\* non-zero rate.
C7_Witness ==
    /\ Called("calculateOptionPrice")
    /\ Args.T < 0 /\ Args.v = 5000 /\ Args.r = 300
    /\ Args.type = "put" /\ Args.S > Args.K
    /\ Ret = 0

\* C8: processLegData returns isExpired = TRUE exactly when
\* expDate <= simulatedDate, and then tradDTE = 0, calDTE = 0 and T = 0.
C8_ExpiredIffNotAfter ==
    Called("processLegData")
    => /\ Ret.isExpired = (Args.leg.expDate <= Args.simulatedDate)
       /\ Ret.isExpired => (Ret.tradDTE = 0 /\ Ret.calDTE = 0 /\ Ret.T = 0)

\* A leg normalised on its expiry date itself.
C8_Witness ==
    /\ Called("processLegData")
    /\ Args.leg.expDate = Args.simulatedDate
    /\ Ret.isExpired

\* The only leg of the state handed to computePortfolioPnLAtPrice and the
\* view mode of its group.
C10_Leg == Args.st.groups[1].legs[1]
C10_Trial == Args.st.groups[1].viewMode = "trial"

C10_RightNowQuoted ==
    /\ Called("computePortfolioPnLAtPrice")
    /\ C10_Trial
    /\ Args.st.simulatedDate = Args.st.baseDate
    /\ Args.st.ivOffset = 0
    /\ C10_Leg.currentPrice # Null
    /\ Val(C10_Leg.currentPrice) > 0

\* C10: in trial mode with simulatedDate = baseDate, ivOffset = 0 and a
\* positive live quote, the leg's P&L (posMultiplier x computeSimulatedPrice
\* - costBasis) is 0 at every underlying price.
C10_ZeroBaseline == C10_RightNowQuoted => Ret = 0

\* Such a leg evaluated at a price where the pricing model's value is not
\* the quote, with a non-zero entered cost.
C10_Witness ==
    /\ C10_RightNowQuoted
    /\ C10_Leg.cost # 0
    /\ Args.price # Args.st.underlyingPrice
    /\ computeLegPrice(
           processLegData(C10_Leg, Args.st.simulatedDate, Args.st.ivOffset,
                          Null, Null, Null, "active"),
           Args.price, Args.st.interestRate) # Val(C10_Leg.currentPrice)

\* ------------------------------------------------------------------------
\* Properties of the holdings table and the P&L curve (SpecApp)
\* ------------------------------------------------------------------------

\* The cost per share the cost rule gives a leg in the current state.
C3_RuleCost(leg, viewMode) ==
    IF viewMode = "active" /\ leg.cost # 0 THEN leg.cost
    ELSE IF leg.currentPrice # Null /\ Val(leg.currentPrice) > 0
    THEN Val(leg.currentPrice)
    ELSE calculateOptionPrice(leg.type, underlyingPrice, leg.strike,
             YearFraction(calendarToTradingDays(baseDate, leg.expDate)),
             interestRate, leg.iv)

C3_GroupCost(group) ==
    SumSeq([i \in 1..Len(group.legs) |->
               group.legs[i].pos * 100
               * C3_RuleCost(group.legs[i], group.viewMode)])

\* C3: the cost basis the normalizer gives every leg is pos x 100 x the
\* cost of the rule (entered cost if active and non-zero, else the live
\* quote if positive, else the BSM price at the base date), so each group's
\* cost in the table is the sum of these.
C3_CostRule ==
    \A g \in 1..Len(groups) : table.cards[g].groupCost = C3_GroupCost(groups[g])

\* The resolver's price of a leg in the current state at price uPrice.
C9_Resolved(leg, viewMode, uPrice) ==
    computeSimulatedPrice(
        processLegData(leg, simulatedDate, ivOffset, Some(baseDate),
                       Some(underlyingPrice), Some(interestRate), viewMode),
        leg, uPrice, interestRate, viewMode, simulatedDate, baseDate, ivOffset)

C9_TableRows ==
    \A g \in 1..Len(groups) : \A i \in 1..Len(groups[g].legs) :
        table.cards[g].rows[i].simPricePerShare
            = C9_Resolved(groups[g].legs[i], groups[g].viewMode, underlyingPrice)

\* The simulated value under a point of the curve: its y plus the cost
\* basis the chart subtracted.
C9_CurveValue(fl, point) ==
    point.y + SumSeq([j \in 1..Len(fl) |-> fl[j].leg.pos * 100 * fl[j].leg.cost])

C9_CurvePoints(fl, data) ==
    \A k \in 1..Len(data) :
        C9_CurveValue(fl, data[k])
            = SumSeq([j \in 1..Len(fl) |->
                  fl[j].leg.pos * 100
                  * C9_Resolved(fl[j].leg, fl[j].viewMode, data[k].x)])

\* C9: the per-share price the holdings table shows for every leg, and the
\* price behind every point of the displayed P&L curve, is
\* computeSimulatedPrice of that leg with its group's viewMode and the
\* state's simulatedDate, baseDate and ivOffset.
C9_ResolverEverywhere ==
    /\ C9_TableRows
    /\ (globalChartVisible /\ globalCurve # Null)
       => C9_CurvePoints(FlatLegs(groups), Val(globalCurve).data)

\* ------------------------------------------------------------------------
\* Properties of the guards of updateProbCharts (Spec)
\* ------------------------------------------------------------------------

\* A step that is one call of updateProbCharts() on a visible panel.
UpdateProbChartsStep == callSeq' = callSeq + 1 /\ panelVisible'

\* The step creates no worker and posts nothing: every worker and
\* _activeWorker are as before.
NothingLaunched == workers' = workers /\ activeWorker' = activeWorker

\* C11: a call of updateProbCharts with simulatedDate = baseDate creates no
\* worker and posts no message, leaves both charts in an empty state with a
\* message, and clears the Expected P&L badge.
C11_ZeroHorizonRefused ==
    [][(UpdateProbChartsStep /\ simulatedDate = baseDate)
       => /\ NothingLaunched
          /\ probChart'.shown = "empty" /\ probChart'.msg # ""
          /\ epnlChart'.shown = "empty" /\ epnlChart'.msg # ""
          /\ badge' = Null]_vars

\* The zero-horizon guard has just ended a call made while an earlier
\* result was on display.
C11_Witness ==
    /\ lastEvent.kind = "zeroDays"
    /\ simulatedDate = baseDate
    /\ lastEvent.badgeBefore # Null
    /\ probChart.shown = "empty"

\* The guards ahead of the parameter lookup let the call through.
C12_ReachesLookup ==
    /\ Len(FlatLegs(groups)) > 0
    /\ simulatedDate # baseDate
    /\ computePortfolioMeanSimIV(state) > 0
    /\ getGlobalChartRange(state).minS < getGlobalChartRange(state).maxS

\* The call has launched a worker.
C12_Launched == workers'[callSeq'].status = "running"

\* What a call of updateProbCharts does when the store is read under the
\* ticker sym: without an entry nothing is launched and, past the earlier
\* guards, both charts carry the missing-parameters guidance and the badge
\* is cleared; a launch uses the entry of sym.
C12_LookupUnder(sym) ==
    /\ T_DIST_PARAMS_DB(sym) = Null
       => /\ NothingLaunched
          /\ C12_ReachesLookup
             => /\ probChart'.shown = "empty"
                /\ probChart'.msg = "missingParams"
                /\ epnlChart'.shown = "empty"
                /\ epnlChart'.msg = "missingParams"
                /\ badge' = Null
    /\ (workers' # workers /\ C12_Launched)
       => /\ T_DIST_PARAMS_DB(sym) # Null
          /\ Val(workers'[callSeq'].req).df = Val(T_DIST_PARAMS_DB(sym)).df
          /\ Val(workers'[callSeq'].req).loc = Val(T_DIST_PARAMS_DB(sym)).loc

C13_Started ==
    \E w \in 1..MaxCalls : workers[w] = NoWorker /\ workers'[w] # NoWorker

C14_Mass(msg) ==
    SumSeq([b \in 1..Len(msg.tDensity) |->
               FMul(msg.tDensity[b], msg.binWidth)])

\* Number of drawn final prices inside [minS, maxS).
C14_InBound(data, paths) ==
    Cardinality({i \in 1..data.nPaths :
        /\ data.minS <= FMul(data.currentPrice, paths[i])
        /\ FMul(data.currentPrice, paths[i]) < data.maxS})

\* The same request with narrower bounds.
C14_Narrowed(data, rng) == [data EXCEPT !.minS = rng.minS, !.maxS = rng.maxS]

C14_MassOf(data, paths, ret) ==
    /\ Abs(C14_Mass(ret)
           - RoundDiv(C14_InBound(data, paths) * SCALE, data.nPaths))
          <= 4 * Bins
    /\ C14_Mass(ret) <= SCALE + 4 * Bins
    /\ \A rng \in KRanges :
          (data.minS <= rng.minS /\ rng.maxS <= data.maxS)
          => C14_Mass(WorkerOnMessage(C14_Narrowed(data, rng), paths))
                <= C14_Mass(ret) + 8 * Bins

C16_TargetDailyVol(iv) == FDiv(iv, 10 * ISqrt(365 * SCALE * 100))

\* targetDailyVol / sqrt(df / (df - 2))
C16_Rescaled(df, iv) ==
    FDiv(C16_TargetDailyVol(iv), MathSqrt(FDiv(df, df - 2 * SCALE)))

\* The result is the fallback up to the threshold and the rescaled value
\* above it.
C16_SplitAt(threshold) ==
    Called("calibrateScale")
    => Ret = IF Args.df <= threshold
             THEN C16_TargetDailyVol(Args.portfolioIV)
             ELSE C16_Rescaled(Args.df, Args.portfolioIV)

C17_TradingDays(start, end) ==
    {d \in start..(end - 1) :
        getUTCDay(d) # 0 /\ getUTCDay(d) # 6 /\ ~isMarketHoliday(d)}

\* C17: calendarToTradingDays counts no Saturday, no Sunday and no market
\* holiday, so its result is the number of trading days in [start, end),
\* and it is 0 when the start date is after the end date.
C17_CountsTradingDaysOnly ==
    Called("calendarToTradingDays")
    => /\ Ret = Cardinality(C17_TradingDays(Args.startDate, Args.endDate))
       /\ Args.startDate > Args.endDate => Ret = 0

\* ------------------------------------------------------------------------
\* Properties of the date controls (SpecDates)
\* ------------------------------------------------------------------------

\* C19: whatever the user does with the simulated-date field, the
\* days-passed slider and the import of a JSON file, state.simulatedDate is
\* never earlier than state.baseDate.
C19_SimDateNotBeforeBase == simulatedDate >= baseDate

\* ------------------------------------------------------------------------
\* Properties of the cost basis across scenarios (SpecKernel)
\* ------------------------------------------------------------------------

\* The same call of processLegData in another scenario.
C20_InScenario(a, simDate, off) ==
    processLegData(a.leg, simDate, off, a.context.gBase, a.context.gUnder,
                   a.context.gRate, a.viewMode)

\* C20: for a trial combo, or a leg whose cost is 0, effectiveCostPerShare
\* and costBasis returned by processLegData are the same for every
\* simulatedDate and ivOffset, all other arguments being equal.
C20_CostIgnoresScenario ==
    (Called("processLegData") /\ (Args.viewMode = "trial" \/ Args.leg.cost = 0))
    => \A simDate \in KDates, off \in KOffsets :
          /\ C20_InScenario(Args, simDate, off).effectiveCostPerShare
                = Ret.effectiveCostPerShare
          /\ C20_InScenario(Args, simDate, off).costBasis = Ret.costBasis

\* An unquoted leg of a trial combo, processed in a scenario a week ahead
\* with a raised IV: its cost is the theoretical price at the base date.
C20_Witness ==
    /\ Called("processLegData")
    /\ Args.viewMode = "trial"
    /\ ~HasLiveQuote(Args.leg)
    /\ Args.context.gBase # Null
    /\ Args.simulatedDate > Day0
    /\ Args.ivOffset # 0
    /\ Args.leg.expDate > Args.simulatedDate
    /\ Ret.effectiveCostPerShare > 0
    /\ Ret.effectiveCostPerShare # Args.leg.cost

\* ------------------------------------------------------------------------
\* Properties of the worker's binning (Spec)
\* ------------------------------------------------------------------------

\* The price lies in the b-th sub-interval of width binWidth, lower edge
\* included and upper edge excluded.
C21_InBin(d, price, b) ==
    /\ d.minS + (b - 1) * WorkerBinWidth(d) <= price
    /\ price < d.minS + b * WorkerBinWidth(d)

\* The same with the upper bound maxS added to the last sub-interval.
C21_InBinClosed(d, price, b) ==
    C21_InBin(d, price, b) \/ (b = d.bins /\ price = d.maxS)

\* The density of a bin that was incremented count times.
C21_DensityOf(d, count) ==
    RoundDiv(count * SCALE * SCALE, d.nPaths * WorkerBinWidth(d))

\* Number of drawn paths whose final price lies in bin b, upper bound
\* counted or not.
C21_PathsIn(d, drawn, b, closed) ==
    Cardinality({i \in 1..Len(drawn) :
        IF closed THEN C21_InBinClosed(d, FMul(d.currentPrice, drawn[i]), b)
        ELSE C21_InBin(d, FMul(d.currentPrice, drawn[i]), b)})

C21_BinsCount(closed) ==
    \A w \in 1..MaxCalls :
        workers[w].status = "posted"
        => \A b \in 1..Val(workers[w].req).bins :
              Val(workers[w].msg).tDensity[b]
                 = C21_DensityOf(Val(workers[w].req),
                       C21_PathsIn(Val(workers[w].req), workers[w].drawn, b,
                                   closed))

\* C21 as stated: a path increments the one bin whose sub-interval holds
\* its final price when the price lies in [minS, maxS], a price equal to
\* maxS included, and no bin otherwise.
C21_ClosedRangeCounted == C21_BinsCount(TRUE)

\* C21 amended: the sub-intervals are closed below and open above, so a
\* final price equal to maxS increments no bin when (maxS - minS) / bins is
\* exact.
C21_HalfOpenRangeCounted == C21_BinsCount(FALSE)

\* A posted result one of whose paths ended exactly on maxS, another
\* inside the range, the bin width being exact.
C21_Witness ==
    \E w \in 1..MaxCalls :
        /\ workers[w].status = "posted"
        /\ Val(workers[w].req).bins * WorkerBinWidth(Val(workers[w].req))
              = Val(workers[w].req).maxS - Val(workers[w].req).minS
        /\ \E i \in 1..NPaths :
              FMul(Val(workers[w].req).currentPrice, workers[w].drawn[i])
                 = Val(workers[w].req).maxS
        /\ \E b \in 1..Bins : Val(workers[w].msg).tDensity[b] > 0

\* ------------------------------------------------------------------------
\* Properties of the worker's leg valuation (SpecKernel)
\* ------------------------------------------------------------------------

\* C22: the per-share value the worker computes for a leg at a terminal
\* price, zero and negative prices included, is
\* computeLegPrice(processedLeg, terminalPrice, rate), up to the rounding of
\* the two orders of evaluation (0.002 here).
C22_WorkerMatchesComputeLegPrice ==
    Called("workerLegValue")
    => Abs(Ret - computeLegPrice(Args.processedLeg, Args.finalPrice,
                                 Args.interestRate)) <= 20

\* ------------------------------------------------------------------------
\* Properties of the simulated IV (SpecKernel)
\* ------------------------------------------------------------------------

C24_Normalized(fl) ==
    processLegData(fl.leg, simulatedDate, ivOffset, Some(baseDate),
                   Some(underlyingPrice), Some(interestRate), fl.viewMode)

\* The chart's processedLegs entry agrees with the normalizer's record.
C24_Agree(chartLeg, pLeg) ==
    /\ chartLeg.timeToMaturityYears = pLeg.T
    /\ chartLeg.simIV = pLeg.simIV
    /\ chartLeg.costBasis = pLeg.costBasis

C24_AllAgree(fl) ==
    \A j \in 1..Len(fl) :
        C24_Agree(ChartLeg(fl[j].leg, state), C24_Normalized(fl[j]))

\* C24: for every leg behind the displayed P&L curve, the time to expiry,
\* the simulated IV and the cost basis PnLChart.draw uses are the T, simIV
\* and costBasis processLegData returns for the leg with its group's
\* viewMode.
C24_CurveUsesNormalizer ==
    (globalChartVisible /\ globalCurve # Null) => C24_AllAgree(FlatLegs(groups))

\* ------------------------------------------------------------------------
\* Properties of the result delivery (Spec)
\* ------------------------------------------------------------------------

\* The inputs captured when worker w was launched.  While a worker runs
\* only the simulated date and the ticker change in Spec; the date of the
\* launch is the base date plus the horizon the closure holds, the price is
\* the closure's.
C25_Snapshot(c) ==
    [state EXCEPT !.simulatedDate = addDays(baseDate, c.nCalDays),
                  !.underlyingPrice = c.currentPrice]

\* What the delivery of message e would draw from the launch inputs.
C25_CurveFromSnapshot(e, c) == PnlValues(C25_Snapshot(c), e.binCenters)

C25_Delivered(w) == workers[w].status = "posted" /\ workers'[w].status = "done"

\* C25: when a simulation result arrives, the P&L-per-bin curve that is
\* drawn is the one computed from the inputs captured at the launch of that
\* simulation, whatever was changed between the launch and the arrival.
C25_RenderedFromLaunchSnapshot ==
    [][\A w \in 1..MaxCalls :
          C25_Delivered(w)
          => /\ epnlChart'.cache # Null
             /\ Val(epnlChart'.cache).pnlValues
                = C25_CurveFromSnapshot(Val(workers[w].msg),
                                        Val(workers[w].closure))]_vars

\* ------------------------------------------------------------------------
\* Properties of the time to expiry (SpecKernel)
\* ------------------------------------------------------------------------

\* A Monday-to-Friday date lies in [simDate, expDate).
C26_HasWeekday(simDate, expDate) ==
    \E d \in simDate..(expDate - 1) : getUTCDay(d) # 0 /\ getUTCDay(d) # 6

\* The leg is priced by the closed form at every spot of the input set.
C26_PricedByBsm(pLeg, r) ==
    \A S \in Prices :
        computeLegPrice(pLeg, S, r)
        = BsmFormula(pLeg.type, S, pLeg.strike, pLeg.T, r, pLeg.simIV)

C26_PositiveT(covered) ==
    (Called("processLegData") /\ Args.leg.expDate > Args.simulatedDate /\ covered)
    => /\ ~Ret.isExpired
       /\ Ret.T > 0
       /\ C26_PricedByBsm(Ret, 300)

RECURSIVE C27_Pow2(_)
C27_Pow2(n) == IF n <= 0 THEN 1 ELSE 2 * C27_Pow2(n - 1)

\* The delay of the reconnect scheduled by the k-th close in a row.
C27_Backoff(k) == Min(WS_BASE_DELAY * C27_Pow2(k - 1), WS_MAX_DELAY)

C28_LiveIds == {<<g, i>> : g \in liveGroups, i \in 1..2} \cap
               {id \in (1..MaxGroups) \X (1..2) :
                    id[1] <= Len(groups) /\ id[2] <= Len(groups[id[1]].legs)}

\* Entry o of a payload describes the leg it names.
C28_Describes(o) ==
    /\ o.strike = groups[o.id[1]].legs[o.id[2]].strike
    /\ o.expDate = groups[o.id[1]].legs[o.id[2]].expDate
    /\ o.right = (IF groups[o.id[1]].legs[o.id[2]].type = "call" THEN "C"
                  ELSE "P")

\* The payload is a subscribe for the current ticker whose options are, one
\* entry each, the legs of the live groups.
C28_SubscribesLiveLegs(payload) ==
    /\ payload.action = "subscribe"
    /\ payload.underlying = underlyingSymbol
    /\ payload.options # Null
    /\ {Val(payload.options)[j].id : j \in 1..Len(Val(payload.options))}
       = C28_LiveIds
    /\ Len(Val(payload.options)) = Cardinality(C28_LiveIds)
    /\ \A j \in 1..Len(Val(payload.options)) :
          C28_Describes(Val(payload.options)[j])

C28_Opened == ws.readyState = "connecting" /\ ws'.readyState = "open"

C29_LegFrame(g, i, options) ==
    /\ groups'[g].legs[i].cost = groups[g].legs[i].cost
    /\ (g \notin liveGroups \/ <<g, i>> \notin DOMAIN options)
       => groups'[g].legs[i] = groups[g].legs[i]
    /\ groups'[g].legs[i]
       = [groups[g].legs[i] EXCEPT
            !.currentPrice = groups'[g].legs[i].currentPrice,
            !.iv = groups'[g].legs[i].iv]
    /\ groups'[g].legs[i].currentPrice # groups[g].legs[i].currentPrice
       => /\ groups'[g].legs[i].currentPrice # Null
          /\ Val(groups'[g].legs[i].currentPrice) > 0
    /\ groups'[g].legs[i].iv # groups[g].legs[i].iv
       => groups'[g].legs[i].iv > 0

C29_Frame(options) ==
    /\ Len(groups') = Len(groups)
    /\ \A g \in 1..Len(groups) :
          /\ groups'[g].viewMode = groups[g].viewMode
          /\ Len(groups'[g].legs) = Len(groups[g].legs)
          /\ \A i \in 1..Len(groups[g].legs) : C29_LegFrame(g, i, options)

\* C29: a run of processLiveMarketData changes no leg's cost, changes no
\* leg of a group whose liveData flag is off, and in a live group changes
\* only currentPrice and iv of the legs the message names, to positive
\* values.
C29_LiveDataFrame ==
    [][\A data \in KLiveData :
          (WsMessage(data) \/ AppWsMessage(data)) => C29_Frame(data.options)]_vars

\* ------------------------------------------------------------------------
\* Properties of the render throttle (SpecLive, with the weak fairness of
\* AnimationFrame)
\* ------------------------------------------------------------------------

\* The table shows the numbers of the current state.
C30_Rendered == table = updateDerivedValues(state)

\* The table as rendered at page load.
C30_InitialTable ==
    updateDerivedValues([state EXCEPT !.underlyingPrice = 10 * SCALE,
                                      !.groups = << TrialGroup, ActiveGroup >>])

\* C30: at most one animation-frame callback is pending at any time; a
\* message that changes state leaves a callback pending; a table that does
\* not show the current state has a callback pending; and a pending callback
\* eventually runs updateDerivedValues on the state as it then is.
C30_RenderThrottle ==
    /\ [](rafPending <= 1 /\ (renderScheduled <=> rafPending = 1))
    /\ [](~C30_Rendered => rafPending = 1)
    /\ [][\A data \in KLiveData :
             (WsMessage(data) /\ appVars' # appVars) => rafPending' = 1]_vars
    /\ [](rafPending = 1 => <>(rafPending = 0 /\ C30_Rendered))

\* Two messages changed state (the underlying price, then a leg's iv) with
\* no frame in between: the table is still the one of the page load and one
\* callback is pending.
C30_Witness ==
    /\ underlyingPrice = 11 * SCALE
    /\ groups[1].legs[1].iv = 2500
    /\ table = C30_InitialTable
    /\ rafPending = 1
    /\ renderScheduled

=============================================================================
